---- MODULE Spec2Model ----
(***************************************************************************)
(* Model of the nix lending order book: the market account (header, slot   *)
(* pool, claimed seats, four booksides), the matching engine place_order,  *)
(* the cancel path and the active-loan ledger.                             *)
(*                                                                         *)
(* Every instruction is one atomic action.  An instruction that returns an *)
(* error (or panics) aborts the transaction: the accounts keep their       *)
(* previous contents.  `last` holds the outcome of the last instruction    *)
(* that succeeded.                                                         *)
(*                                                                         *)
(* The red-black trees of the hypertree crate are represented by their     *)
(* in-order sequences of slot indices (worst first, maximum last).  The    *)
(* money market (marginfi) is represented by the bank parameters that the  *)
(* share arithmetic reads; its CPIs are taken to succeed.  Per-seat volume *)
(* counters (monitoring only) are not represented.                         *)
(*                                                                         *)
(* The instructions take the borrows of the accounts to succeed and the    *)
(* account buffers to hold every block they write.  The operations of the  *)
(* loan ledger, taken on their own (SpecLedger), keep the length of the    *)
(* ledger's buffer.                                                        *)
(***************************************************************************)
EXTENDS Integers, Sequences, FiniteSets, TLC

(***************************************************************************)
(* Bounds of the model.                                                    *)
(***************************************************************************)
MaxBlocks == 5          \* market slot pool never grows beyond this many blocks
MaxSeq == 3             \* cap on each tree pair's order sequence number
MaxBidAtoms == 7        \* largest bid whose collateral is followed fill by fill
MaxNowSlot == 2         \* the clock runs from slot 0 to this slot
MaxLoans == 3           \* cap on the number of loans appended to the ledger
MaxDeposits == 1        \* cap on the number of deposits per seat and asset
MaxGlobalDeposits == 1  \* cap on the number of global deposits per trader

(***************************************************************************)
(* Program constants.                                                      *)
(***************************************************************************)
NIL == -1                       \* hypertree NIL (u32::MAX in the program)
MARKET_BLOCK_SIZE == 112
MARKET_LOAN_BLOCK_SIZE == 96
GAS_DEPOSIT_LAMPORTS == 5000
MAX_ACTIVE_LOANS == 5000
NO_EXPIRATION_LAST_VALID_SLOT == 0

\* MarketDataTreeNodeType
Empty == 0
ClaimedSeat == 1
RestingOrder == 2

\* OrderType
Limit == 0
ImmediateOrCancel == 1
PostOnly == 2
Global == 3
Reverse == 4
P2P2Pool == 5
OrderTypes == {Limit, ImmediateOrCancel, PostOnly, Global, Reverse, P2P2Pool}

(***************************************************************************)
(* Inputs.                                                                 *)
(***************************************************************************)
Traders == {11, 22}        \* public keys, ordered as integers
Rates == {0, 5, 6}
BaseAtoms == {1, 2}
LastValidSlots == {0, 1}
DepositAtoms == 4
GlobalDepositAtoms == 2
ReverseSpreads == {0}
Pairs == BOOLEAN             \* use_a_tree
GlobalAccountsSupplied == BOOLEAN

(***************************************************************************)
(* I80F48 fixed point.  A value v stands for v / ONE.                      *)
(***************************************************************************)
ONE == 4

from_num(n) == n * ONE
checked_mul(a, b) == (a * b) \div ONE
checked_div(a, b) == (a * ONE) \div b
checked_floor(a) == a \div ONE
checked_ceil(a) == (a + ONE - 1) \div ONE

(***************************************************************************)
(* The two marginfi banks and the oracle, read-only during the run.        *)
(***************************************************************************)
BankA == [asset_share_value |-> 2 * ONE, liability_share_value |-> ONE,
          asset_weight_init |-> ONE, liability_weight_init |-> ONE,
          mint_decimals |-> 0, price |-> 2 * ONE]
BankB == [asset_share_value |-> ONE, liability_share_value |-> 2 * ONE,
          asset_weight_init |-> ONE, liability_weight_init |-> ONE,
          mint_decimals |-> 0, price |-> ONE]
ltv_buffer_bps == 0

Exp10(d) == IF d = 0 THEN from_num(1) ELSE from_num(10)

BaseBank(use_a_tree) == IF use_a_tree THEN BankA ELSE BankB
QuoteBank(use_a_tree) == IF use_a_tree THEN BankB ELSE BankA

convert_tokens_to_asset_shares(token_amount, bank) ==
    checked_div(from_num(token_amount), bank.asset_share_value)

convert_asset_shares_to_tokens(asset_shares, bank) ==
    checked_floor(checked_mul(asset_shares, bank.asset_share_value))

convert_tokens_to_liability_shares(token_amount, bank) ==
    checked_div(from_num(token_amount), bank.liability_share_value)

get_token_amount_to_repay_liability_shares(liability_shares, bank) ==
    checked_ceil(checked_mul(liability_shares, bank.liability_share_value))

buffer_f == checked_div(from_num(10000 - ltv_buffer_bps), from_num(10000))

get_required_quote_collateral_to_back_loan(base_bank, quote_bank, num_base_atoms) ==
    LET effective_quote_collateral_weight ==
            checked_mul(quote_bank.asset_weight_init, buffer_f)
        base_value_usd ==
            checked_div(checked_mul(from_num(num_base_atoms), base_bank.price),
                        Exp10(base_bank.mint_decimals))
        required_quote_collateral_value_usd ==
            checked_div(checked_mul(base_value_usd, base_bank.liability_weight_init),
                        effective_quote_collateral_weight)
        required_collateral_tokens_i80f48 ==
            checked_div(checked_mul(required_quote_collateral_value_usd,
                                    Exp10(quote_bank.mint_decimals)),
                        quote_bank.price)
    IN  checked_ceil(required_collateral_tokens_i80f48)

(***************************************************************************)
(* State.                                                                  *)
(***************************************************************************)
VARIABLES
    now_slot,       \* the clock (Clock::get().slot)
    fixed,          \* MarketFixed: header of the market account
    dynamic,        \* the market's slot pool: block index -> node
    trees,          \* in-order sequence of each tree (the links of its RBNodes)
    global,         \* per mint: the global account (deposits, lamports held)
    market_loans,   \* the loan ledger account: header, slot pool, loan tree
    links_intact,   \* FALSE once remove_by_index ran on a tree not holding the node
    last            \* the last instruction that succeeded, and its outcome

vars == <<now_slot, fixed, dynamic, trees, global, market_loans, links_intact, last>>

BlockIndexes == {i * MARKET_BLOCK_SIZE : i \in 0..(MaxBlocks - 1)}
LoanBlockIndexes == {i * MARKET_LOAN_BLOCK_SIZE : i \in 0..(2 * MaxLoans + 1)}
TreeNames == {"base_a_bids", "base_a_asks", "base_b_bids", "base_b_asks"}
AllTreeNames == TreeNames \cup {"claimed_seats"}
Mints == {"A", "B"}

\* A zeroed block and a block on the free list (FreeListNode).
ZeroNode == [payload_type |-> Empty, next_index |-> 0]
FreeListNode(next) == [payload_type |-> Empty, next_index |-> next]

TreeName(use_a_tree, is_bid) ==
    IF use_a_tree
    THEN (IF is_bid THEN "base_a_bids" ELSE "base_a_asks")
    ELSE (IF is_bid THEN "base_b_bids" ELSE "base_b_asks")

\* hypertree FreeList::add / FreeList::remove on a slot pool.
FreeListAdd(dyn, head, index) ==
    [dynamic |-> [dyn EXCEPT ![index] = FreeListNode(head)], head |-> index]

FreeListRemove(dyn, head) ==
    IF head = NIL
    THEN [index |-> NIL, head |-> NIL]
    ELSE [index |-> head, head |-> dyn[head].next_index]

has_free_block(f) == f.free_list_head_index # NIL

market_expand(f, dyn) ==
    LET fl == FreeListAdd(dyn, f.free_list_head_index, f.num_bytes_allocated)
    IN  [fixed |-> [f EXCEPT !.num_bytes_allocated = @ + MARKET_BLOCK_SIZE,
                             !.free_list_head_index = fl.head],
         dynamic |-> fl.dynamic]

\* An instruction end that never grows the market.
expand_market_never(f, dyn) == [fixed |-> f, dynamic |-> dyn]

expand_market_if_needed(f, dyn) ==
    IF has_free_block(f) THEN [fixed |-> f, dynamic |-> dyn] ELSE market_expand(f, dyn)

get_free_address_on_market_fixed(f, dyn) ==
    LET fl == FreeListRemove(dyn, f.free_list_head_index)
    IN  [free_address |-> fl.index,
         fixed |-> [f EXCEPT !.free_list_head_index = fl.head]]

release_address_on_market_fixed(f, dyn, index) ==
    LET fl == FreeListAdd(dyn, f.free_list_head_index, index)
    IN  [fixed |-> [f EXCEPT !.free_list_head_index = index],
         dynamic |-> fl.dynamic]

\* ClaimedSeatTree::lookup_index(ClaimedSeat::new_empty(trader))
get_trader_index(dyn, trs, trader) ==
    LET seq == trs["claimed_seats"]
        found == {i \in 1..Len(seq) : dyn[seq[i]].trader = trader}
    IN  IF found = {} THEN NIL ELSE seq[CHOOSE i \in found : TRUE]

new_empty_seat(trader) ==
    [payload_type |-> ClaimedSeat, trader |-> trader,
     base_a_withdrawable_asset_share |-> 0,
     base_b_withdrawable_asset_share |-> 0]

\* claim_seat that gives a seat to whoever asks, seated or not.
claim_seat_without_lookup(f, dyn, trs, trader) ==
    LET fa == get_free_address_on_market_fixed(f, dyn)
    IN  IF fa.free_address = NIL
        THEN [err |-> "Panic", fixed |-> fa.fixed, dynamic |-> dyn, trees |-> trs]
        ELSE [err |-> "", fixed |-> fa.fixed,
              dynamic |-> [dyn EXCEPT ![fa.free_address] = new_empty_seat(trader)],
              trees |-> [trs EXCEPT !["claimed_seats"] = <<fa.free_address>> \o @]]

\* claim_seat: the free address is taken first, then the lookup decides.
\* The result carries the market as the call leaves it, error or not.
claim_seat(f, dyn, trs, trader) ==
    LET fa == get_free_address_on_market_fixed(f, dyn)
        seq == trs["claimed_seats"]
        lower == {i \in 1..Len(seq) : dyn[seq[i]].trader < trader}
    IN  IF get_trader_index(dyn, trs, trader) # NIL
        THEN [err |-> "AlreadyClaimedSeat", fixed |-> fa.fixed, dynamic |-> dyn,
              trees |-> trs]
        ELSE IF fa.free_address = NIL
        THEN [err |-> "Panic", fixed |-> fa.fixed, dynamic |-> dyn, trees |-> trs]
        ELSE [err |-> "", fixed |-> fa.fixed,
              dynamic |-> [dyn EXCEPT ![fa.free_address] = new_empty_seat(trader)],
              trees |-> [trs EXCEPT !["claimed_seats"] =
                            SubSeq(seq, 1, Cardinality(lower)) \o <<fa.free_address>>
                                \o SubSeq(seq, Cardinality(lower) + 1, Len(seq))]]

\* update_balance: the single mutation point of a seat's withdrawable shares.
\* An update that subtracts without looking at the balance.
update_balance_unchecked(dyn, trader_index, update_base_a, is_increase, asset_shares) ==
    LET seat == dyn[trader_index]
        cur == IF update_base_a THEN seat.base_a_withdrawable_asset_share
                                ELSE seat.base_b_withdrawable_asset_share
        new == IF is_increase THEN cur + asset_shares ELSE cur - asset_shares
    IN  [err |-> "",
         dynamic |-> [dyn EXCEPT ![trader_index] =
             IF update_base_a
             THEN [seat EXCEPT !.base_a_withdrawable_asset_share = new]
             ELSE [seat EXCEPT !.base_b_withdrawable_asset_share = new]]]

update_balance(dyn, trader_index, update_base_a, is_increase, asset_shares) ==
    LET seat == dyn[trader_index]
        cur == IF update_base_a THEN seat.base_a_withdrawable_asset_share
                                ELSE seat.base_b_withdrawable_asset_share
        new == IF is_increase THEN cur + asset_shares ELSE cur - asset_shares
    IN  IF ~is_increase /\ ~(cur >= asset_shares)
        THEN [err |-> "InsufficientFunds", dynamic |-> dyn]
        ELSE [err |-> "",
              dynamic |-> [dyn EXCEPT ![trader_index] =
                  IF update_base_a
                  THEN [seat EXCEPT !.base_a_withdrawable_asset_share = new]
                  ELSE [seat EXCEPT !.base_b_withdrawable_asset_share = new]]]

should_update_base_a(use_a_tree, is_bid) ==
    IF use_a_tree THEN ~is_bid ELSE is_bid

NoResult == [op |-> "init", err |-> ""]

Init ==
    /\ now_slot = 0
    /\ fixed = [free_list_head_index |-> 0,
                num_bytes_allocated |-> MARKET_BLOCK_SIZE,
                base_a_order_sequence_number |-> 0,
                base_b_order_sequence_number |-> 0,
                best_index |-> [t \in TreeNames |-> NIL]]
    /\ dynamic = [i \in BlockIndexes |-> IF i = 0 THEN FreeListNode(NIL) ELSE ZeroNode]
    /\ trees = [t \in AllTreeNames |-> <<>>]
    /\ global = [m \in Mints |-> [balance |-> [t \in Traders |-> 0], lamports |-> 0]]
    /\ market_loans =
         [fixed |-> [free_list_head_index |-> 0,
                     num_bytes_allocated |-> MARKET_LOAN_BLOCK_SIZE,
                     num_active_loans |-> 0,
                     loan_sequence_number |-> 0],
          dynamic |-> [i \in LoanBlockIndexes |->
                          IF i = 0 THEN FreeListNode(NIL) ELSE ZeroNode],
          tree |-> <<>>]
    /\ links_intact = TRUE
    /\ last = NoResult

\* The clock advances.
Tick ==
    /\ now_slot < MaxNowSlot
    /\ now_slot' = now_slot + 1
    /\ UNCHANGED <<fixed, dynamic, trees, global, market_loans, links_intact, last>>

\* ClaimSeat instruction: claim_seat, then keep one free block available.
\* An instruction that fails leaves every account as it was, and last too.
ClaimSeat(trader) ==
    LET r == claim_seat(fixed, dynamic, trees, trader)
        e == expand_market_if_needed(r.fixed, r.dynamic)
    IN  /\ r.err = "" => e.fixed.num_bytes_allocated <= MaxBlocks * MARKET_BLOCK_SIZE
        /\ last' = IF r.err = ""
                   THEN [op |-> "claim_seat", err |-> r.err]
                   ELSE last
        /\ IF r.err = ""
           THEN fixed' = e.fixed /\ dynamic' = e.dynamic /\ trees' = r.trees
           ELSE UNCHANGED <<fixed, dynamic, trees>>
        /\ UNCHANGED <<now_slot, global, market_loans, links_intact>>

\* Deposit instruction: the shares gained on marginfi are credited to the seat.
Deposit(trader, is_base_a) ==
    LET trader_index == get_trader_index(dynamic, trees, trader)
        bank == IF is_base_a THEN BankA ELSE BankB
        shares == convert_tokens_to_asset_shares(DepositAtoms, bank)
        r == IF trader_index = NIL
             THEN [err |-> "InvalidDepositAccounts", dynamic |-> dynamic]
             ELSE update_balance(dynamic, trader_index, is_base_a, TRUE, shares)
        bal == IF is_base_a
               THEN r.dynamic[trader_index].base_a_withdrawable_asset_share
               ELSE r.dynamic[trader_index].base_b_withdrawable_asset_share
    IN  /\ r.err = "" => bal <= MaxDeposits * shares
        /\ last' = IF r.err = ""
                   THEN [op |-> "deposit", err |-> r.err]
                   ELSE last
        /\ IF r.err = "" THEN dynamic' = r.dynamic ELSE UNCHANGED dynamic
        /\ UNCHANGED <<now_slot, fixed, trees, global, market_loans, links_intact>>

\* GlobalDeposit instruction: deposit_global credits the depositor's balance.
GlobalDeposit(trader, mint) ==
    /\ global[mint].balance[trader] + GlobalDepositAtoms
          <= MaxGlobalDeposits * GlobalDepositAtoms
    /\ global' = [global EXCEPT ![mint].balance[trader] = @ + GlobalDepositAtoms]
    /\ last' = [op |-> "global_deposit", err |-> ""]
    /\ UNCHANGED <<now_slot, fixed, dynamic, trees, market_loans, links_intact>>

(***************************************************************************)
(* Resting orders and booksides.                                           *)
(***************************************************************************)
new_resting_order(rate_bps, sequence_number, collateral_shares, liability_shares, is_a_tree, trader_index, last_valid_slot, order_type, is_bid) ==
    [payload_type |-> RestingOrder,
     collateral_shares |-> collateral_shares,
     liability_shares |-> liability_shares,
     rate_bps |-> rate_bps,
     sequence_number |-> sequence_number,
     trader_index |-> trader_index,
     last_valid_slot |-> last_valid_slot,
     order_type |-> order_type,
     is_bid |-> is_bid,
     is_a_tree |-> is_a_tree]

get_helper_order(dyn, index) == dyn[index]

is_expired(order, current_slot) ==
    order.last_valid_slot # NO_EXPIRATION_LAST_VALID_SLOT
        /\ order.last_valid_slot < current_slot

is_global(order) == order.order_type = Global

\* Every order type may rest.
any_order_type_can_rest(order_type) == TRUE

order_type_can_rest(order_type) == order_type # ImmediateOrCancel

\* Every order type may take.
order_type_can_always_take(order_type) == order_type \in OrderTypes

order_type_can_take(order_type) == order_type # PostOnly /\ order_type # Global

get_num_base_atoms(order, base_bank) ==
    IF order.is_bid
    THEN get_token_amount_to_repay_liability_shares(order.liability_shares, base_bank)
    ELSE convert_asset_shares_to_tokens(order.collateral_shares, base_bank)

reduce_bid(order, base_bank, quote_bank, quote_atoms_traded, base_atoms_traded) ==
    [order EXCEPT
        !.collateral_shares =
            @ - convert_tokens_to_asset_shares(quote_atoms_traded, quote_bank),
        !.liability_shares =
            @ - convert_tokens_to_liability_shares(base_atoms_traded, base_bank)]

reduce_ask(order, base_bank, base_atoms_traded) ==
    [order EXCEPT
        !.collateral_shares =
            @ - convert_tokens_to_asset_shares(base_atoms_traded, base_bank),
        !.liability_shares = 0]

\* impl Ord for RestingOrder: -1, 0, 1 for Less, Equal, Greater.
Sign(n) == IF n < 0 THEN -1 ELSE IF n > 0 THEN 1 ELSE 0

order_cmp(self, other) ==
    IF self.is_bid
    THEN Sign(self.rate_bps - other.rate_bps)
    ELSE Sign(other.rate_bps - self.rate_bps)

Contains(seq, x) == \E i \in 1..Len(seq) : seq[i] = x
RemoveFromSeq(seq, x) == SelectSeq(seq, LAMBDA e : e # x)
InsertAt(seq, pos, x) == SubSeq(seq, 1, pos - 1) \o <<x>> \o SubSeq(seq, pos, Len(seq))

\* HyperTreeReadOperations::get_next_lower_index: the in-order predecessor
\* of the node, found through the node's own links.
get_next_lower_index(trs, index) ==
    IF \E t \in TreeNames : Contains(trs[t], index)
    THEN LET t == CHOOSE t \in TreeNames : Contains(trs[t], index)
             i == CHOOSE i \in 1..Len(trs[t]) : trs[t][i] = index
         IN  IF i = 1 THEN NIL ELSE trs[t][i - 1]
    ELSE NIL

\* The in-order positions RedBlackTree::insert can give a new node: above a
\* node it compares greater than, below a node it does not.  Equal keys are
\* placed below the older node.  One position in a tree of orders of one
\* side; in a tree that mixes sides (impl Ord compares them in a build
\* without debug assertions) it can depend on the shape of the tree.
insert_positions(dyn, seq, resting_order) ==
    {p \in 1..(Len(seq) + 1) :
        /\ p = 1 \/ order_cmp(resting_order, get_helper_order(dyn, seq[p - 1])) > 0
        /\ p = Len(seq) + 1
              \/ order_cmp(resting_order, get_helper_order(dyn, seq[p])) <= 0}

\* insert_order_into_tree: RedBlackTree::insert below the tree selected by
\* (use_a_tree, is_bid), then the header's cached maximum is refreshed.
\* determined is FALSE where the position depends on the tree's shape.
insert_order_into_tree(use_a_tree, is_bid, f, dyn, trs, free_address, resting_order) ==
    LET name == TreeName(use_a_tree, is_bid)
        seq == trs[name]
        positions == insert_positions(dyn, seq, resting_order)
        pos == CHOOSE p \in positions : TRUE
        old_best == f.best_index[name]
        new_best == IF old_best = NIL
                       \/ order_cmp(resting_order, get_helper_order(dyn, old_best)) > 0
                    THEN free_address ELSE old_best
    IN  [determined |-> Cardinality(positions) = 1,
         fixed |-> [f EXCEPT !.best_index[name] = new_best],
         dynamic |-> [dyn EXCEPT ![free_address] = resting_order],
         trees |-> [trs EXCEPT ![name] = InsertAt(seq, pos, free_address)]]

\* remove_order_from_tree: RedBlackTree::remove_by_index unlinks the node
\* from its neighbours; the header fields refreshed are those of the tree
\* selected by (use_a_tree, is_bid).  intact is FALSE when that tree does
\* not hold the node: the header of the tree that holds it is then left as
\* it was, and what the rewiring does to either tree's root is not known.
remove_order_from_tree(f, trs, use_a_tree, order_index, is_bid) ==
    LET name == TreeName(use_a_tree, is_bid)
        old_best == f.best_index[name]
        new_best == IF old_best = order_index
                    THEN get_next_lower_index(trs, order_index) ELSE old_best
    IN  [intact |-> Contains(trs[name], order_index),
         fixed |-> [f EXCEPT !.best_index[name] = new_best],
         trees |-> [t \in DOMAIN trs |-> RemoveFromSeq(trs[t], order_index)]]

remove_order_from_tree_and_free(f, dyn, trs, use_a_tree, order_index, is_bid) ==
    LET Freed(rel, r) ==
            [intact |-> r.intact, fixed |-> rel.fixed, dynamic |-> rel.dynamic,
             trees |-> r.trees]
        Removed(r) ==
            Freed(release_address_on_market_fixed(r.fixed, dyn, order_index), r)
    IN  Removed(remove_order_from_tree(f, trs, use_a_tree, order_index, is_bid))

(***************************************************************************)
(* Global accounts and loans.                                              *)
(***************************************************************************)
BaseMint(use_a_tree) == IF use_a_tree THEN "A" ELSE "B"

\* remove_from_global: pays the gas prepayment out of the global account,
\* unless the caller supplied no global accounts.
remove_from_global(g, mint, with_global) ==
    IF with_global THEN [g EXCEPT ![mint].lamports = @ - GAS_DEPOSIT_LAMPORTS] ELSE g

\* try_to_add_to_global: add_order, then the gas prepayment is transferred in.
try_to_add_to_global(g, mint) ==
    [g EXCEPT ![mint].lamports = @ + GAS_DEPOSIT_LAMPORTS]

\* A transfer that hands over whatever the depositor has left.
try_to_move_global_tokens_in_part(g, mint, resting_order_trader, desired_global_atoms) ==
    IF desired_global_atoms > g[mint].balance[resting_order_trader]
    THEN [has_enough_tokens |-> TRUE,
          global |-> [g EXCEPT ![mint].balance[resting_order_trader] = 0]]
    ELSE [has_enough_tokens |-> TRUE,
          global |-> [g EXCEPT ![mint].balance[resting_order_trader] =
                                   @ - desired_global_atoms]]

\* try_to_move_global_tokens: all or nothing.
try_to_move_global_tokens(g, mint, resting_order_trader, desired_global_atoms) ==
    IF desired_global_atoms > g[mint].balance[resting_order_trader]
    THEN [has_enough_tokens |-> FALSE, global |-> g]
    ELSE [has_enough_tokens |-> TRUE,
          global |-> [g EXCEPT ![mint].balance[resting_order_trader] =
                                   @ - desired_global_atoms]]

\* A loan record that drops the collateral it is given.
ActiveLoan_without_collateral(is_liability_base_a, lender_index, borrower_index, is_lender_global, collateral_shares, liability_shares, rate_bps, last_updated_slot) ==
    [sequence_number |-> 0,
     lender_index |-> lender_index,
     borrower_index |-> borrower_index,
     is_lender_global |-> is_lender_global,
     is_liability_base_a |-> is_liability_base_a,
     collateral_shares |-> 0,
     liability_shares |-> liability_shares,
     rate_bps |-> rate_bps,
     last_updated_slot |-> last_updated_slot]

ActiveLoan_new_empty(is_liability_base_a, lender_index, borrower_index, is_lender_global, collateral_shares, liability_shares, rate_bps, last_updated_slot) ==
    [sequence_number |-> 0,
     lender_index |-> lender_index,
     borrower_index |-> borrower_index,
     is_lender_global |-> is_lender_global,
     is_liability_base_a |-> is_liability_base_a,
     collateral_shares |-> collateral_shares,
     liability_shares |-> liability_shares,
     rate_bps |-> rate_bps,
     last_updated_slot |-> last_updated_slot]

assert_not_already_expired(last_valid_slot, now) ==
    last_valid_slot = NO_EXPIRATION_LAST_VALID_SLOT \/ last_valid_slot > now

\* A validation that lets every order type through on either side.
assert_any_order_type(order_type, is_bid) == ""

assert_valid_order_type(order_type, is_bid) ==
    IF is_bid /\ order_type = Global THEN "InvalidGlobalBidOrder"
    ELSE IF ~is_bid /\ order_type = Reverse THEN "InvalidAskReverseOrder"
    ELSE ""

\* remove_and_update_balances on the matching state s.
remove_and_update_balances(s, use_a_tree, order_to_remove_index, with_global) ==
    LET Removed(o, r) ==
            [s EXCEPT !.fixed = r.fixed, !.dynamic = r.dynamic, !.trees = r.trees,
                      !.global = IF is_global(o)
                                 THEN remove_from_global(s.global, BaseMint(use_a_tree),
                                                         with_global)
                                 ELSE s.global,
                      !.gas_received = @ + (IF is_global(o) /\ with_global
                                            THEN GAS_DEPOSIT_LAMPORTS ELSE 0),
                      !.err = IF r.intact THEN @ ELSE "Undetermined"]
        Remove(o) ==
            IF is_global(o) /\ o.is_bid
            THEN [s EXCEPT !.err = "InvalidGlobalBidOrder"]
            ELSE Removed(o, remove_order_from_tree_and_free(
                                s.fixed,
                                IF ~is_global(o) /\ ~o.is_bid
                                THEN update_balance(
                                         s.dynamic, o.trader_index,
                                         should_update_base_a(use_a_tree, o.is_bid),
                                         TRUE, o.collateral_shares).dynamic
                                ELSE s.dynamic,
                                s.trees, use_a_tree, order_to_remove_index, o.is_bid))
    IN  Remove(get_helper_order(s.dynamic, order_to_remove_index))

(***************************************************************************)
(* place_order: the matching loop.  The loop state s carries the market    *)
(* (fixed, dynamic, trees), the global accounts, the cursor, the running   *)
(* totals, the loans and fill logs produced so far, and the error, if any. *)
(* The fields maker_order_index, maker_trader_index and                    *)
(* did_fully_match_resting_order of a fill entry are the loop's locals at  *)
(* the time the FillLog was emitted, and its field loan is the position in *)
(* matched_loans of the loan pushed with the fill (0 if none was pushed);  *)
(* evicted counts the makers removed by the loop without a fill.           *)
(***************************************************************************)
\* A FillLog that records the taker's limit instead of the maker's rate.
FillLog_at_taker_limit(s, a, maker_order, base_atoms_traded, quote_atoms_traded, did_fully_match_resting_order, base_shares, quote_shares) ==
    [maker |-> s.dynamic[maker_order.trader_index].trader,
     taker |-> a.taker,
     base_atoms |-> base_atoms_traded,
     quote_atoms |-> quote_atoms_traded,
     rate_bps |-> a.rate_bps,
     maker_sequence_number |-> maker_order.sequence_number,
     taker_sequence_number |->
         IF a.use_a_tree THEN s.fixed.base_a_order_sequence_number
                         ELSE s.fixed.base_b_order_sequence_number,
     taker_is_buy |-> a.is_bid,
     is_maker_global |-> is_global(maker_order),
     maker_order_index |-> s.cur,
     maker_trader_index |-> maker_order.trader_index,
     did_fully_match_resting_order |-> did_fully_match_resting_order,
     loan |-> IF did_fully_match_resting_order THEN Len(s.new_loans) + 1 ELSE 0,
     base_atom_asset_shares_traded |-> base_shares,
     quote_atom_asset_shares_traded |-> quote_shares]

FillLog(s, a, maker_order, base_atoms_traded, quote_atoms_traded, did_fully_match_resting_order, base_shares, quote_shares) ==
    [maker |-> s.dynamic[maker_order.trader_index].trader,
     taker |-> a.taker,
     base_atoms |-> base_atoms_traded,
     quote_atoms |-> quote_atoms_traded,
     rate_bps |-> maker_order.rate_bps,
     maker_sequence_number |-> maker_order.sequence_number,
     taker_sequence_number |->
         IF a.use_a_tree THEN s.fixed.base_a_order_sequence_number
                         ELSE s.fixed.base_b_order_sequence_number,
     taker_is_buy |-> a.is_bid,
     is_maker_global |-> is_global(maker_order),
     maker_order_index |-> s.cur,
     maker_trader_index |-> maker_order.trader_index,
     did_fully_match_resting_order |-> did_fully_match_resting_order,
     loan |-> IF did_fully_match_resting_order THEN Len(s.new_loans) + 1 ELSE 0,
     base_atom_asset_shares_traded |-> base_shares,
     quote_atom_asset_shares_traded |-> quote_shares]

\* One pass of the loop body from assert_can_take on: a fill, or the
\* eviction of an unbacked global maker.
MatchStep(s, a, maker_order, next_maker_order_index) ==
    LET base_bank == BaseBank(a.use_a_tree)
        quote_bank == QuoteBank(a.use_a_tree)
        is_maker_global == is_global(maker_order)
        Totals(t, base_atoms_traded, quote_atoms_traded, fill) ==
            [t EXCEPT
                !.global_base = IF is_maker_global /\ a.is_bid
                                THEN @ + base_atoms_traded ELSE @,
                !.global_quote = IF is_maker_global /\ ~a.is_bid
                                 THEN @ + quote_atoms_traded ELSE @,
                !.total_base = @ + base_atoms_traded,
                !.total_quote = @ + quote_atoms_traded,
                !.fills = Append(@, fill)]
        FullMatch(g1, rem, base_atoms_traded, base_shares, quote_shares) ==
            [s EXCEPT
                !.fixed = rem.fixed, !.dynamic = rem.dynamic, !.trees = rem.trees,
                !.global = IF is_maker_global
                           THEN remove_from_global(
                                    g1, IF a.is_bid THEN BaseMint(a.use_a_tree)
                                                    ELSE BaseMint(~a.use_a_tree),
                                    a.with_global)
                           ELSE g1,
                !.gas_received = @ + (IF is_maker_global /\ a.with_global
                                      THEN GAS_DEPOSIT_LAMPORTS ELSE 0),
                !.remaining = @ - base_atoms_traded,
                !.new_loans =
                    Append(@, ActiveLoan_new_empty(
                                  a.use_a_tree,
                                  IF a.is_bid THEN s.cur ELSE a.trader_index,
                                  IF a.is_bid THEN a.trader_index ELSE s.cur,
                                  IF a.is_bid THEN is_maker_global
                                              ELSE a.order_type = Global,
                                  quote_shares, base_shares,
                                  maker_order.rate_bps, a.now_slot)),
                !.cur = next_maker_order_index,
                !.err = IF rem.intact THEN @ ELSE "Undetermined"]
        PartialMatch(g1, dyn2, base_atoms_traded, quote_atoms_traded) ==
            [s EXCEPT
                !.dynamic =
                    [dyn2 EXCEPT ![s.cur] =
                        IF maker_order.is_bid
                        THEN reduce_bid(maker_order, base_bank, quote_bank,
                                        quote_atoms_traded, base_atoms_traded)
                        ELSE reduce_ask(maker_order, base_bank, base_atoms_traded)],
                !.global = g1,
                !.remaining = 0,
                !.done = TRUE]
        Finish(g1, dyn2, did_fully_match_resting_order, base_atoms_traded,
               quote_atoms_traded, base_shares, quote_shares) ==
            Totals(IF did_fully_match_resting_order
                   THEN FullMatch(g1,
                                  remove_order_from_tree_and_free(
                                      s.fixed, dyn2, s.trees, a.use_a_tree, s.cur,
                                      ~a.is_bid),
                                  base_atoms_traded, base_shares, quote_shares)
                   ELSE PartialMatch(g1, dyn2, base_atoms_traded, quote_atoms_traded),
                   base_atoms_traded, quote_atoms_traded,
                   FillLog(s, a, maker_order, base_atoms_traded, quote_atoms_traded,
                           did_fully_match_resting_order, base_shares, quote_shares))
        Settle(g1, dec, did_fully_match_resting_order, base_atoms_traded,
               quote_atoms_traded, base_shares, quote_shares) ==
            IF dec.err # ""
            THEN [s EXCEPT !.err = dec.err]
            ELSE IF a.is_bid /\ a.order_type # Reverse
            THEN IF ~assert_not_already_expired(a.last_valid_slot, a.now_slot)
                 THEN [s EXCEPT !.err = "AlreadyExpired"]
                 ELSE Finish(g1,
                             update_balance(dec.dynamic, a.trader_index,
                                            should_update_base_a(a.use_a_tree, a.is_bid),
                                            TRUE, base_shares).dynamic,
                             did_fully_match_resting_order, base_atoms_traded,
                             quote_atoms_traded, base_shares, quote_shares)
            ELSE Finish(g1, dec.dynamic, did_fully_match_resting_order,
                        base_atoms_traded, quote_atoms_traded, base_shares,
                        quote_shares)
        Taker(g1, did_fully_match_resting_order, base_atoms_traded,
              quote_atoms_traded, base_shares, quote_shares) ==
            Settle(g1,
                   update_balance(s.dynamic, a.trader_index,
                                  should_update_base_a(a.use_a_tree, ~a.is_bid), FALSE,
                                  IF a.is_bid THEN quote_shares ELSE base_shares),
                   did_fully_match_resting_order, base_atoms_traded,
                   quote_atoms_traded, base_shares, quote_shares)
        Backed(g1, did_fully_match_resting_order, base_atoms_traded,
               quote_atoms_traded) ==
            Taker(g1, did_fully_match_resting_order, base_atoms_traded,
                  quote_atoms_traded,
                  convert_tokens_to_asset_shares(base_atoms_traded, base_bank),
                  convert_tokens_to_asset_shares(quote_atoms_traded, quote_bank))
        Moved(moved, did_fully_match_resting_order, base_atoms_traded,
              quote_atoms_traded) ==
            IF ~moved.has_enough_tokens
            THEN [remove_and_update_balances(s, a.use_a_tree, s.cur, a.with_global)
                     EXCEPT !.cur = next_maker_order_index, !.evicted = @ + 1]
            ELSE Backed(moved.global, did_fully_match_resting_order,
                        base_atoms_traded, quote_atoms_traded)
        Traded(did_fully_match_resting_order, base_atoms_traded,
               quote_atoms_traded) ==
            IF ~is_maker_global
            THEN Backed(s.global, did_fully_match_resting_order, base_atoms_traded,
                        quote_atoms_traded)
            ELSE IF ~a.with_global
            THEN [s EXCEPT !.err = "MissingGlobal"]
            ELSE Moved(try_to_move_global_tokens(
                           s.global, BaseMint(a.use_a_tree),
                           s.dynamic[maker_order.trader_index].trader,
                           base_atoms_traded),
                       did_fully_match_resting_order, base_atoms_traded,
                       quote_atoms_traded)
        Atoms(did_fully_match_resting_order, base_atoms_traded) ==
            Traded(did_fully_match_resting_order, base_atoms_traded,
                   get_required_quote_collateral_to_back_loan(base_bank, quote_bank,
                                                              base_atoms_traded))
        Maker(maker_base_atoms) ==
            Atoms(s.remaining >= maker_base_atoms,
                  IF s.remaining >= maker_base_atoms
                  THEN maker_base_atoms ELSE s.remaining)
    IN  Maker(get_num_base_atoms(maker_order, base_bank))

\* A loop that looks at the maker's rate before it looks at its expiry.
RECURSIVE MatchLoop_rate_limit_first(_, _)
MatchLoop_rate_limit_first(s, a) ==
    LET Evict(maker_order, next_maker_order_index) ==
            [remove_and_update_balances(
                 IF maker_order.is_bid
                 THEN [s EXCEPT !.new_loans =
                          Append(@, ActiveLoan_new_empty(
                                        a.use_a_tree, 0, s.cur, is_global(maker_order),
                                        maker_order.collateral_shares,
                                        maker_order.liability_shares, 0, a.now_slot))]
                 ELSE s,
                 a.use_a_tree, s.cur, a.with_global)
                EXCEPT !.cur = next_maker_order_index, !.evicted = @ + 1]
        Body(maker_order, next_maker_order_index) ==
            IF (a.is_bid /\ maker_order.rate_bps > a.rate_bps)
                  \/ (~a.is_bid /\ maker_order.rate_bps < a.rate_bps)
            THEN [s EXCEPT !.done = TRUE]
            ELSE IF is_expired(maker_order, a.now_slot)
                    \/ maker_order.collateral_shares = 0
            THEN MatchLoop_rate_limit_first(Evict(maker_order, next_maker_order_index),
                                            a)
            ELSE IF ~order_type_can_take(a.order_type)
            THEN [s EXCEPT !.err = "PostOnlyCrosses"]
            ELSE MatchLoop_rate_limit_first(
                     MatchStep(s, a, maker_order, next_maker_order_index), a)
    IN  IF s.err # "" \/ s.done \/ ~(s.remaining > 0 /\ s.cur # NIL)
        THEN s
        ELSE Body(get_helper_order(s.dynamic, s.cur),
                  get_next_lower_index(s.trees, s.cur))

RECURSIVE MatchLoop(_, _)
MatchLoop(s, a) ==
    LET Evict(maker_order, next_maker_order_index) ==
            [remove_and_update_balances(
                 IF maker_order.is_bid
                 THEN [s EXCEPT !.new_loans =
                          Append(@, ActiveLoan_new_empty(
                                        a.use_a_tree, 0, s.cur, is_global(maker_order),
                                        maker_order.collateral_shares,
                                        maker_order.liability_shares, 0, a.now_slot))]
                 ELSE s,
                 a.use_a_tree, s.cur, a.with_global)
                EXCEPT !.cur = next_maker_order_index, !.evicted = @ + 1]
        Body(maker_order, next_maker_order_index) ==
            IF is_expired(maker_order, a.now_slot)
               \/ maker_order.collateral_shares = 0
            THEN MatchLoop(Evict(maker_order, next_maker_order_index), a)
            ELSE IF (a.is_bid /\ maker_order.rate_bps > a.rate_bps)
                    \/ (~a.is_bid /\ maker_order.rate_bps < a.rate_bps)
            THEN [s EXCEPT !.done = TRUE]
            ELSE IF ~order_type_can_take(a.order_type)
            THEN [s EXCEPT !.err = "PostOnlyCrosses"]
            ELSE MatchLoop(MatchStep(s, a, maker_order, next_maker_order_index), a)
    IN  IF s.err # "" \/ s.done \/ ~(s.remaining > 0 /\ s.cur # NIL)
        THEN s
        ELSE Body(get_helper_order(s.dynamic, s.cur),
                  get_next_lower_index(s.trees, s.cur))

(***************************************************************************)
(* place_order and rest_remaining.  A result carries the error (empty on   *)
(* success), the market and global accounts as the call leaves them, and   *)
(* the fields of AddOrderToMarketResult.  The error "Undetermined" is not  *)
(* one of the program's: it marks a call whose outcome depends on the      *)
(* shape or the rewiring of a tree, which the model does not follow.       *)
(***************************************************************************)
OrderResult(s, err, order_sequence_number, order_index) ==
    [err |-> err,
     fixed |-> s.fixed, dynamic |-> s.dynamic, trees |-> s.trees, global |-> s.global,
     order_sequence_number |-> order_sequence_number,
     order_index |-> order_index,
     base_atoms_traded |-> s.total_base,
     quote_atoms_traded |-> s.total_quote,
     matched_loans |-> s.new_loans,
     fills |-> s.fills,
     evicted |-> s.evicted,
     gas_received |-> s.gas_received]

rest_remaining(s, a, remaining_collateral_shares, remaining_liability_shares, order_sequence_number) ==
    LET Inserted(ins, g1, free_address) ==
            OrderResult([s EXCEPT !.fixed = ins.fixed, !.dynamic = ins.dynamic,
                                  !.trees = ins.trees, !.global = g1],
                        IF ins.determined THEN "" ELSE "Undetermined",
                        order_sequence_number, free_address)
        Rest(fa, resting_order, ub) ==
            IF is_global(resting_order) /\ a.is_bid
            THEN OrderResult(s, "InvalidGlobalBidOrder", 0, NIL)
            ELSE IF is_global(resting_order) /\ ~a.with_global
            THEN OrderResult(s, "MissingGlobal", 0, NIL)
            ELSE IF ~is_global(resting_order) /\ ub.err # ""
            THEN OrderResult(s, ub.err, 0, NIL)
            ELSE IF fa.free_address = NIL
            THEN OrderResult(s, "Panic", 0, NIL)
            ELSE Inserted(
                     insert_order_into_tree(
                         a.use_a_tree, a.is_bid, fa.fixed,
                         IF is_global(resting_order) THEN s.dynamic ELSE ub.dynamic,
                         s.trees, fa.free_address, resting_order),
                     IF is_global(resting_order)
                     THEN try_to_add_to_global(s.global, BaseMint(a.use_a_tree))
                     ELSE s.global,
                     fa.free_address)
        Checked(err) ==
            IF err # ""
            THEN OrderResult(s, err, 0, NIL)
            ELSE IF a.order_type = Reverse
                    /\ a.last_valid_slot # NO_EXPIRATION_LAST_VALID_SLOT
            THEN OrderResult(s, "Panic", 0, NIL)
            ELSE Rest(get_free_address_on_market_fixed(s.fixed, s.dynamic),
                      new_resting_order(a.rate_bps, order_sequence_number,
                                        remaining_collateral_shares,
                                        remaining_liability_shares, a.use_a_tree,
                                        a.trader_index, a.last_valid_slot,
                                        a.order_type, a.is_bid),
                      update_balance(s.dynamic, a.trader_index,
                                     should_update_base_a(a.use_a_tree, ~a.is_bid),
                                     FALSE, remaining_collateral_shares))
    IN  Checked(assert_valid_order_type(a.order_type, a.is_bid))

\* A place_order that bumps no order sequence number.
keep_order_sequence_number(f, use_a_tree) == f

\* The chosen pair's order sequence number is bumped (wrapping_add on u64; the
\* model caps the numbers far below the wrap).
bump_order_sequence_number(f, use_a_tree) ==
    IF use_a_tree
    THEN [f EXCEPT !.base_a_order_sequence_number = @ + 1]
    ELSE [f EXCEPT !.base_b_order_sequence_number = @ + 1]

order_sequence_number_of(f, use_a_tree) ==
    IF use_a_tree THEN f.base_a_order_sequence_number
                  ELSE f.base_b_order_sequence_number

\* The rate of the repost: u16 checked_mul, then checked_div.  10_000u16 minus a spread
\* above 10000 underflows, and what follows depends on the build.
reverse_rate_bps(rate_bps, reverse_spread_bps) ==
    IF reverse_spread_bps > 10000
    THEN [err |-> "Undetermined", rate_bps |-> 0]
    ELSE IF rate_bps * (10000 - reverse_spread_bps) >= 65536
    THEN [err |-> "NumericalOverflow", rate_bps |-> 0]
    ELSE [err |-> "", rate_bps |-> (rate_bps * (10000 - reverse_spread_bps)) \div 10000]

\* The reverse branch of place_order: the repost of a Reverse bid.
reverse_order(s, a, order_sequence_number, total_reverse_base_shares, reverse_rate) ==
    LET Inserted(ins, free_address) ==
            OrderResult([s EXCEPT !.fixed = ins.fixed, !.dynamic = ins.dynamic,
                                  !.trees = ins.trees],
                        IF ins.determined THEN "" ELSE "Undetermined",
                        order_sequence_number, free_address)
        Repost(fa, reverse_order_sequence_number) ==
            IF fa.free_address = NIL
            THEN OrderResult(s, "Panic", 0, NIL)
            ELSE Inserted(
                     insert_order_into_tree(
                         a.use_a_tree, a.is_bid, fa.fixed, s.dynamic, s.trees,
                         fa.free_address,
                         new_resting_order(reverse_rate, reverse_order_sequence_number,
                                           total_reverse_base_shares, 0, ~a.use_a_tree,
                                           a.trader_index, a.last_valid_slot, Limit,
                                           ~a.is_bid)),
                     fa.free_address)
        Bumped(f1) ==
            Repost(get_free_address_on_market_fixed(f1, s.dynamic),
                   order_sequence_number_of(f1, ~a.use_a_tree))
    IN  Bumped(bump_order_sequence_number(s.fixed, ~a.use_a_tree))

\* place_order after the matching loop has left the state m.
after_matching(m, a) ==
    LET base_bank == BaseBank(a.use_a_tree)
        quote_bank == QuoteBank(a.use_a_tree)
        rr == reverse_rate_bps(a.rate_bps, a.reverse_spread_bps)
        Shares(s1, order_sequence_number, remaining_quote_atoms) ==
            rest_remaining(
                s1, a,
                IF a.is_bid
                THEN convert_tokens_to_asset_shares(remaining_quote_atoms, quote_bank)
                ELSE IF a.order_type = Global THEN from_num(m.remaining)
                ELSE convert_tokens_to_asset_shares(m.remaining, base_bank),
                IF a.is_bid
                THEN convert_tokens_to_liability_shares(m.remaining, base_bank)
                ELSE 0,
                order_sequence_number)
        Remainder(s1, order_sequence_number) ==
            Shares(s1, order_sequence_number,
                   IF a.is_bid
                   THEN get_required_quote_collateral_to_back_loan(
                            base_bank, quote_bank, m.remaining)
                   ELSE 0)
        Reverse_(s1, order_sequence_number, total_reverse_base_shares) ==
            IF rr.err # ""
            THEN OrderResult(s1, rr.err, 0, NIL)
            ELSE IF total_reverse_base_shares > 0
            THEN reverse_order(s1, a, order_sequence_number,
                               total_reverse_base_shares, rr.rate_bps)
            ELSE Remainder(s1, order_sequence_number)
        Bumped(s1, order_sequence_number) ==
            IF ~order_type_can_rest(a.order_type) \/ m.remaining = 0 \/ a.rate_bps = 0
            THEN OrderResult(s1, "", order_sequence_number, NIL)
            ELSE IF ~a.with_global
            THEN OrderResult(s1, "Panic", 0, NIL)
            ELSE IF a.is_bid /\ a.order_type = Reverse
            THEN Reverse_(s1, order_sequence_number,
                          convert_tokens_to_asset_shares(
                              m.total_base + (m.global_base + m.remaining), base_bank))
            ELSE Remainder(s1, order_sequence_number)
    IN  IF m.err # ""
        THEN OrderResult(m, m.err, 0, NIL)
        ELSE Bumped([m EXCEPT !.fixed = bump_order_sequence_number(@, a.use_a_tree)],
                    order_sequence_number_of(
                        bump_order_sequence_number(m.fixed, a.use_a_tree),
                        a.use_a_tree))

place_order(f, dyn, trs, g, a) ==
    LET s0 == [fixed |-> f, dynamic |-> dyn, trees |-> trs, global |-> g,
               cur |-> f.best_index[TreeName(a.use_a_tree, ~a.is_bid)],
               remaining |-> a.num_base_atoms,
               total_base |-> 0, total_quote |-> 0,
               global_base |-> 0, global_quote |-> 0,
               new_loans |-> <<>>, fills |-> <<>>,
               err |-> "", done |-> FALSE, evicted |-> 0, gas_received |-> 0]
    IN  IF a.trader_index = NIL
        THEN OrderResult(s0, "AlreadyClaimedSeat", 0, NIL)
        ELSE IF ~assert_not_already_expired(a.last_valid_slot, a.now_slot)
        THEN OrderResult(s0, "AlreadyExpired", 0, NIL)
        ELSE IF assert_valid_order_type(a.order_type, a.is_bid) # ""
        THEN OrderResult(s0, assert_valid_order_type(a.order_type, a.is_bid), 0, NIL)
        ELSE after_matching(MatchLoop(s0, a), a)

(***************************************************************************)
(* The loan ledger.  A block of the ledger is a free-list node or a loan.  *)
(* The word a loan's block shows where a free-list node keeps next_index   *)
(* is a link of the loan's tree node: stale_link stands for its value.     *)
(***************************************************************************)
expand_loan_account(ml, n) ==
    LET fl == FreeListAdd(ml.dynamic, ml.fixed.free_list_head_index,
                          ml.fixed.num_bytes_allocated)
    IN  [ml EXCEPT !.fixed.num_bytes_allocated = @ + n * MARKET_LOAN_BLOCK_SIZE,
                   !.fixed.free_list_head_index = fl.head,
                   !.dynamic = fl.dynamic]

\* expand_market_loans: the account grows by n blocks, then expand_loan_account.
expand_market_loans(ml, n) == expand_loan_account(ml, n)

is_free_list_node(node) == "next_index" \in DOMAIN node

get_free_address_on_market_loans_fixed(ml, stale_link) ==
    LET head == ml.fixed.free_list_head_index
        node == ml.dynamic[head]
    IN  IF head = NIL
        THEN [free_address |-> NIL, head |-> NIL, stale |-> FALSE]
        ELSE IF is_free_list_node(node)
        THEN [free_address |-> head, head |-> node.next_index, stale |-> FALSE]
        ELSE [free_address |-> head, head |-> stale_link, stale |-> TRUE]

RECURSIVE add_loans_from(_, _, _, _)
add_loans_from(r, loan_records, i, stale_link) ==
    IF i > Len(loan_records) \/ r.err # ""
    THEN r
    ELSE LET fa == get_free_address_on_market_loans_fixed(r.ml, stale_link)
             free_address == fa.free_address
             tree1 == IF Contains(r.ml.tree, free_address)
                      THEN r.ml.tree
                      ELSE InsertAt(r.ml.tree, 1, free_address)
         IN  IF free_address = NIL
             THEN [r EXCEPT !.err = "Panic"]
             ELSE add_loans_from(
                    [r EXCEPT !.ml.fixed.free_list_head_index = fa.head,
                              !.ml.fixed.num_active_loans = @ + 1,
                              !.ml.dynamic[free_address] = loan_records[i],
                              !.ml.tree = tree1,
                              !.stale = @ \/ fa.stale],
                    loan_records, i + 1, stale_link)

\* An add_loans that does not count the loans it inserts.
add_loans_uncounted(ml, loan_records, stale_link) ==
    IF ml.fixed.num_active_loans + Len(loan_records) <= MAX_ACTIVE_LOANS
    THEN [add_loans_from([err |-> "", ml |-> ml, stale |-> FALSE], loan_records, 1,
                         stale_link)
            EXCEPT !.ml.fixed.num_active_loans = ml.fixed.num_active_loans]
    ELSE [err |-> "MaxActiveLoansExceeded", ml |-> ml, stale |-> FALSE]

add_loans(ml, loan_records, stale_link) ==
    IF ml.fixed.num_active_loans + Len(loan_records) <= MAX_ACTIVE_LOANS
    THEN add_loans_from([err |-> "", ml |-> ml, stale |-> FALSE],
                        loan_records, 1, stale_link)
    ELSE [err |-> "MaxActiveLoansExceeded", ml |-> ml, stale |-> FALSE]

\* The values stale_link can take: any link of the loan tree, if adding the
\* loans reads one; otherwise none is read and NIL stands for that.
LoanLinks(ml, loan_records) ==
    IF add_loans(ml, loan_records, NIL).stale
    THEN {NIL} \cup {i \in LoanBlockIndexes : i < ml.fixed.num_bytes_allocated}
    ELSE {NIL}

(***************************************************************************)
(* PlaceOrder instruction.                                                 *)
(***************************************************************************)
\* The arguments process_place_order_core hands to place_order: the trader's
\* seat index, the instruction's parameters, whether the base global
\* accounts were supplied, and the clock.
AddOrderToMarketArgs(trader, num_base_atoms, rate_bps, reverse_spread_bps, is_bid, use_a_tree, last_valid_slot, order_type, with_global) ==
    [trader_index |-> get_trader_index(dynamic, trees, trader),
     taker |-> trader,
     num_base_atoms |-> num_base_atoms,
     rate_bps |-> rate_bps,
     reverse_spread_bps |-> reverse_spread_bps,
     is_bid |-> is_bid,
     use_a_tree |-> use_a_tree,
     last_valid_slot |-> last_valid_slot,
     order_type |-> order_type,
     with_global |-> with_global,
     now_slot |-> now_slot]

\* last keeps the result place_order returned, the fills it logged, and
\* trader_seat, the trader's seat as the instruction found it.
PlaceOrder(trader, num_base_atoms, rate_bps, reverse_spread_bps, is_bid, use_a_tree, last_valid_slot, order_type, with_global) ==
    LET Commit(a, res, e, l, err) ==
            /\ err # "Undetermined"
            /\ fixed.base_a_order_sequence_number < MaxSeq
            /\ fixed.base_b_order_sequence_number < MaxSeq
            /\ err = "" =>
                  /\ e.fixed.num_bytes_allocated <= MaxBlocks * MARKET_BLOCK_SIZE
                  /\ l.ml.fixed.num_active_loans <= MaxLoans
                  /\ l.ml.fixed.num_bytes_allocated
                         <= (MaxLoans + 1) * MARKET_LOAN_BLOCK_SIZE
            /\ last' = IF err = ""
                       THEN [op |-> "place_order", err |-> err, args |-> a,
                             order_sequence_number |-> res.order_sequence_number,
                             order_index |-> res.order_index,
                             base_atoms_traded |-> res.base_atoms_traded,
                             quote_atoms_traded |-> res.quote_atoms_traded,
                             matched_loans |-> res.matched_loans,
                             fills |-> res.fills,
                             evicted |-> res.evicted,
                             gas_received |-> res.gas_received,
                             trader_seat |-> dynamic[a.trader_index]]
                       ELSE last
            /\ IF err = ""
               THEN /\ fixed' = e.fixed
                    /\ dynamic' = e.dynamic
                    /\ trees' = res.trees
                    /\ global' = res.global
                    /\ market_loans' = l.ml
               ELSE UNCHANGED <<fixed, dynamic, trees, global, market_loans>>
            /\ UNCHANGED <<now_slot, links_intact>>
        Added(a, res, l) ==
            Commit(a, res, expand_market_if_needed(res.fixed, res.dynamic), l,
                   IF res.err # "" THEN res.err ELSE l.err)
        Expanded(a, res, x) ==
            \E stale_link \in (IF res.err = "" THEN LoanLinks(x, res.matched_loans)
                                               ELSE {NIL}) :
                Added(a, res, add_loans(x, res.matched_loans, stale_link))
        Placed(a, res) ==
            Expanded(a, res, expand_market_loans(market_loans, Len(res.matched_loans)))
        PlaceOrderWith(a) ==
            /\ links_intact
            /\ Placed(a, place_order(fixed, dynamic, trees, global, a))
    IN  PlaceOrderWith(AddOrderToMarketArgs(trader, num_base_atoms, rate_bps,
                                            reverse_spread_bps, is_bid, use_a_tree,
                                            last_valid_slot, order_type,
                                            with_global))

(***************************************************************************)
(* CancelOrder instruction.                                                *)
(***************************************************************************)
cancel_order_by_index(f, dyn, trs, g, ml, use_a_tree, order_index, now, stale_link) ==
    LET Done(err, rem, g1, ml1, gas) ==
            [err |-> err, fixed |-> rem.fixed, dynamic |-> rem.dynamic,
             trees |-> rem.trees, global |-> g1, market_loans |-> ml1,
             gas_received |-> gas, intact |-> rem.intact]
        Remove(resting_order, err, dyn1, g1, ml1, gas) ==
            Done(err,
                 remove_order_from_tree_and_free(f, dyn1, trs, use_a_tree, order_index,
                                                 resting_order.is_bid),
                 g1, ml1, gas)
        Loaned(resting_order, l) == Remove(resting_order, l.err, dyn, g, l.ml, 0)
        Cancel(resting_order) ==
            IF is_global(resting_order)
            THEN Remove(resting_order,
                        IF resting_order.is_bid THEN "InvalidGlobalBidOrder" ELSE "",
                        dyn, remove_from_global(g, BaseMint(use_a_tree), TRUE), ml,
                        GAS_DEPOSIT_LAMPORTS)
            ELSE IF resting_order.is_bid
            THEN Loaned(resting_order,
                        add_loans(expand_market_loans(ml, 1),
                                  <<ActiveLoan_new_empty(
                                        use_a_tree, 0, resting_order.trader_index,
                                        FALSE, resting_order.collateral_shares,
                                        resting_order.liability_shares, 0, now)>>,
                                  stale_link))
            ELSE Remove(resting_order, "",
                        update_balance(dyn, resting_order.trader_index,
                                       should_update_base_a(use_a_tree, FALSE), TRUE,
                                       resting_order.collateral_shares).dynamic,
                        g, ml, 0)
    IN  Cancel(get_helper_order(dyn, order_index))

\* A scan that does not ask whose order it finds.
RECURSIVE cancel_scan_any_owner(_, _, _, _, _, _)
cancel_scan_any_owner(dyn, seq, i, trader_index, order_sequence_number, st) ==
    IF i > Len(seq) \/ st.err # ""
    THEN st
    ELSE LET resting_order == get_helper_order(dyn, seq[i])
         IN  IF resting_order.sequence_number # order_sequence_number
             THEN cancel_scan_any_owner(dyn, seq, i + 1, trader_index,
                                        order_sequence_number, st)
             ELSE IF st.index_to_remove # NIL
             THEN [st EXCEPT !.err = "InvalidCancel"]
             ELSE cancel_scan_any_owner(dyn, seq, i + 1, trader_index,
                                        order_sequence_number,
                                        [st EXCEPT !.index_to_remove = seq[i]])

\* The scan of one bookside in cancel_order; st is [err, index_to_remove].
RECURSIVE cancel_scan(_, _, _, _, _, _)
cancel_scan(dyn, seq, i, trader_index, order_sequence_number, st) ==
    IF i > Len(seq) \/ st.err # ""
    THEN st
    ELSE LET resting_order == get_helper_order(dyn, seq[i])
         IN  IF resting_order.sequence_number # order_sequence_number
             THEN cancel_scan(dyn, seq, i + 1, trader_index, order_sequence_number, st)
             ELSE IF resting_order.trader_index # trader_index
                     \/ st.index_to_remove # NIL
             THEN [st EXCEPT !.err = "InvalidCancel"]
             ELSE cancel_scan(dyn, seq, i + 1, trader_index, order_sequence_number,
                              [st EXCEPT !.index_to_remove = seq[i]])

cancel_order(f, dyn, trs, g, ml, use_a_tree, trader_index, order_sequence_number, now, stale_link) ==
    LET Found(st) ==
            IF st.err # "" \/ st.index_to_remove = NIL
            THEN [err |-> "InvalidCancel", fixed |-> f, dynamic |-> dyn,
                  trees |-> trs, global |-> g, market_loans |-> ml,
                  gas_received |-> 0, intact |-> TRUE]
            ELSE cancel_order_by_index(f, dyn, trs, g, ml, use_a_tree,
                                       st.index_to_remove, now, stale_link)
        Asks(st) ==
            Found(cancel_scan(dyn, trs[TreeName(use_a_tree, TRUE)], 1, trader_index,
                              order_sequence_number, st))
    IN  Asks(cancel_scan(dyn, trs[TreeName(use_a_tree, FALSE)], 1, trader_index,
                         order_sequence_number,
                         [err |-> "", index_to_remove |-> NIL]))

\* Hint checks that do not ask whose order the hint names.
check_cancel_hint_any_owner(dyn, trader_index, order_sequence_number, hinted_cancel_index) ==
    /\ hinted_cancel_index % MARKET_BLOCK_SIZE = 0
    /\ dyn[hinted_cancel_index].payload_type = RestingOrder
    /\ order_sequence_number = dyn[hinted_cancel_index].sequence_number

\* The checks of process_cancel_order on an order index hint.
check_cancel_hint(dyn, trader_index, order_sequence_number, hinted_cancel_index) ==
    /\ hinted_cancel_index % MARKET_BLOCK_SIZE = 0
    /\ dyn[hinted_cancel_index].payload_type = RestingOrder
    /\ trader_index = dyn[hinted_cancel_index].trader_index
    /\ order_sequence_number = dyn[hinted_cancel_index].sequence_number

CancelHints ==
    {NIL, MARKET_BLOCK_SIZE \div 2}
        \cup {i \in BlockIndexes : i < fixed.num_bytes_allocated}

\* process_cancel_order_core: order_index_hint = NIL stands for no hint.  The
\* one loan a cancel adds takes the block expand_market_loans has just pushed,
\* a free-list node, so no stale link is read.
process_cancel_order_core(f, dyn, trs, g, ml, trader_index, order_sequence_number, order_index_hint, use_a_tree, now) ==
    IF order_index_hint = NIL
    THEN cancel_order(f, dyn, trs, g, ml, use_a_tree, trader_index,
                      order_sequence_number, now, NIL)
    ELSE IF check_cancel_hint(dyn, trader_index, order_sequence_number,
                              order_index_hint)
    THEN cancel_order_by_index(f, dyn, trs, g, ml, use_a_tree, order_index_hint,
                               now, NIL)
    ELSE [err |-> "WrongIndexHintParams", fixed |-> f, dynamic |-> dyn,
          trees |-> trs, global |-> g, market_loans |-> ml,
          gas_received |-> 0, intact |-> TRUE]

CancelOrder(trader, order_sequence_number, order_index_hint, use_a_tree) ==
    LET Commit(trader_index, r) ==
            /\ r.err = "" =>
                  /\ r.market_loans.fixed.num_active_loans <= MaxLoans
                  /\ r.market_loans.fixed.num_bytes_allocated
                         <= (MaxLoans + 1) * MARKET_LOAN_BLOCK_SIZE
            /\ last' = IF r.err = ""
                       THEN [op |-> "cancel_order", err |-> r.err, trader |-> trader,
                             trader_index |-> trader_index,
                             order_sequence_number |-> order_sequence_number,
                             order_index_hint |-> order_index_hint,
                             use_a_tree |-> use_a_tree,
                             gas_received |-> r.gas_received]
                       ELSE last
            /\ IF r.err = ""
               THEN /\ fixed' = r.fixed
                    /\ dynamic' = r.dynamic
                    /\ trees' = r.trees
                    /\ global' = r.global
                    /\ market_loans' = r.market_loans
                    /\ links_intact' = r.intact
               ELSE UNCHANGED <<fixed, dynamic, trees, global, market_loans,
                                links_intact>>
            /\ UNCHANGED now_slot
        CancelOrderBy(trader_index) ==
            /\ links_intact
            /\ order_index_hint \in CancelHints
            /\ Commit(trader_index,
                      process_cancel_order_core(fixed, dynamic, trees, global,
                                                market_loans, trader_index,
                                                order_sequence_number,
                                                order_index_hint, use_a_tree,
                                                now_slot))
    IN  CancelOrderBy(get_trader_index(dynamic, trees, trader))

(***************************************************************************)
(* The program: any instruction, by any trader, at any time.               *)
(***************************************************************************)
SequenceNumbers == 0..MaxSeq

\* The order-index hints a CancelOrder can carry: none, a misaligned index,
\* or the index of a block.
Hints == {NIL, MARKET_BLOCK_SIZE \div 2} \cup BlockIndexes

\* Orders as <<trader, num_base_atoms, rate_bps, reverse_spread_bps, is_bid,
\* use_a_tree, last_valid_slot, order_type, with_global>>.
Orders(traders, base_atoms, rates, sides, pairs, last_valid_slots, order_types, with_global) ==
    traders \X base_atoms \X rates \X ReverseSpreads \X sides \X pairs
        \X last_valid_slots \X order_types \X with_global

\* The instructions an environment E sends, and their inputs.
ClaimSeats(E) == \E trader \in E.traders : ClaimSeat(trader)

Deposits(E) == \E d \in E.deposits : Deposit(d[1], d[2])

GlobalDeposits(E) == \E d \in E.global_deposits : GlobalDeposit(d[1], d[2])

PlaceOrders(E) ==
    \E o \in E.orders :
        PlaceOrder(o[1], o[2], o[3], o[4], o[5], o[6], o[7], o[8], o[9])

CancelOrders(E) ==
    \E trader \in E.traders, order_sequence_number \in SequenceNumbers,
       order_index_hint \in E.hints, use_a_tree \in E.pairs :
         CancelOrder(trader, order_sequence_number, order_index_hint, use_a_tree)

\* Every instruction with every input of the model.
AnyInput ==
    [traders |-> Traders,
     deposits |-> Traders \X BOOLEAN,
     global_deposits |-> Traders \X Mints,
     orders |-> Orders(Traders, BaseAtoms, Rates, BOOLEAN, Pairs, LastValidSlots,
                       OrderTypes, GlobalAccountsSupplied),
     hints |-> Hints,
     pairs |-> Pairs]

Next ==
    \/ Tick
    \/ ClaimSeats(AnyInput)
    \/ Deposits(AnyInput)
    \/ GlobalDeposits(AnyInput)
    \/ PlaceOrders(AnyInput)
    \/ CancelOrders(AnyInput)

Spec == Init /\ [][Next]_vars

(***************************************************************************)
(* Environments.  The traders of an environment hold a seat each and trade *)
(* on tree pair A: 11 deposits asset B, 22 deposits asset A.               *)
(***************************************************************************)
OnPairA ==
    [AnyInput EXCEPT !.deposits = {<<11, FALSE>>, <<22, TRUE>>},
                     !.global_deposits = {},
                     !.pairs = {TRUE}]

\* A successful PlaceOrder step: only place_order bumps a sequence number.
PlaceOrderStep == last'.op = "place_order" /\ fixed' # fixed

\* A successful CancelOrder step: only a cancel frees a block and records it.
CancelOrderStep == last'.op = "cancel_order" /\ dynamic' # dynamic

(***************************************************************************)
(* Matching: Limit and ImmediateOrCancel orders of both sides meet.        *)
(***************************************************************************)
Matching ==
    [OnPairA EXCEPT
        !.orders = Orders({11}, BaseAtoms, {5, 6}, {FALSE}, {TRUE}, {0}, {Limit},
                          {TRUE})
                   \cup Orders({22}, BaseAtoms, {5, 6}, {TRUE}, {TRUE}, {0},
                               {Limit, ImmediateOrCancel}, {TRUE})]

NextMatching ==
    \/ ClaimSeats(Matching)
    \/ Deposits(Matching)
    \/ PlaceOrders(Matching)

SpecMatching == Init /\ [][NextMatching]_vars

\* C1: every fill of a place_order is against a maker resting on the
\* opposite bookside of the chosen pair whose rate is within the taker's
\* limit (at most the limit for a bid taker, at least the limit for an ask
\* taker), and the FillLog and the loan pushed with the fill carry that
\* maker's rate_bps.
FillsAtMakerRate ==
    [][PlaceOrderStep =>
        \A i \in 1..Len(last'.fills) :
            LET fill == last'.fills[i]
                args == last'.args
                maker == dynamic[fill.maker_order_index]
            IN  /\ Contains(trees[TreeName(args.use_a_tree, ~args.is_bid)],
                            fill.maker_order_index)
                /\ args.is_bid => maker.rate_bps <= args.rate_bps
                /\ ~args.is_bid => maker.rate_bps >= args.rate_bps
                /\ fill.rate_bps = maker.rate_bps
                /\ fill.loan # 0 =>
                       last'.matched_loans[fill.loan].rate_bps = maker.rate_bps]_vars

\* A bid taker was filled, with a loan, by an ask below its limit.
FilledBelowLimit ==
    /\ last.op = "place_order"
    /\ last.args.is_bid
    /\ \E i \in 1..Len(last.fills) :
          /\ last.fills[i].rate_bps < last.args.rate_bps
          /\ last.fills[i].loan # 0

\* C4: every FillLog of a successful place_order, the fill of a part of a
\* maker included, has a loan in matched_loans with the fill's rate, its
\* quote shares as collateral and its base shares as liability.
EveryFillHasLoan ==
    last.op = "place_order" =>
        \A i \in 1..Len(last.fills) :
            \E k \in 1..Len(last.matched_loans) :
                /\ last.matched_loans[k].rate_bps = last.fills[i].rate_bps
                /\ last.matched_loans[k].collateral_shares
                       = last.fills[i].quote_atom_asset_shares_traded
                /\ last.matched_loans[k].liability_shares
                       = last.fills[i].base_atom_asset_shares_traded

\* C5: the loans of a place_order name seats: the loan of a fill has the
\* maker's seat as lender and the taker's seat as borrower for a bid taker,
\* the reverse for an ask taker, and every loan's borrower (and its lender,
\* unless it is the sentinel 0) is the index of a claimed seat.
LoansReferenceSeats ==
    last.op = "place_order" =>
        /\ \A i \in 1..Len(last.fills) :
              LET fill == last.fills[i]
                  taker_seat == last.args.trader_index
              IN  fill.loan # 0 =>
                      LET loan == last.matched_loans[fill.loan]
                      IN  IF last.args.is_bid
                          THEN /\ loan.lender_index = fill.maker_trader_index
                               /\ loan.borrower_index = taker_seat
                          ELSE /\ loan.lender_index = taker_seat
                               /\ loan.borrower_index = fill.maker_trader_index
        /\ \A k \in 1..Len(last.matched_loans) :
              /\ Contains(trees["claimed_seats"], last.matched_loans[k].borrower_index)
              /\ \/ last.matched_loans[k].lender_index = 0
                 \/ Contains(trees["claimed_seats"],
                             last.matched_loans[k].lender_index)

(***************************************************************************)
(* Reposting: Limit orders of both sides and Reverse bids.                 *)
(***************************************************************************)
Reposting ==
    [OnPairA EXCEPT
        !.orders = Orders({11}, BaseAtoms, {5, 6}, {FALSE}, {TRUE}, {0}, {Limit},
                          {TRUE})
                   \cup Orders({22}, BaseAtoms, {5, 6}, {TRUE}, {TRUE}, {0},
                               {Limit, Reverse}, {TRUE})]

NextReposting ==
    \/ ClaimSeats(Reposting)
    \/ Deposits(Reposting)
    \/ PlaceOrders(Reposting)

SpecReposting == Init /\ [][NextReposting]_vars

\* A maker the matching loop would trade with: unexpired, with collateral,
\* and, if global, backed by its owner's global deposit.
is_live_maker(dyn, g, order, use_a_tree, now) ==
    /\ ~is_expired(order, now)
    /\ order.collateral_shares # 0
    /\ is_global(order) =>
          g[BaseMint(use_a_tree)].balance[dyn[order.trader_index].trader]
              >= get_num_base_atoms(order, BaseBank(use_a_tree))

\* C2: makers are consumed best rate first: after a place_order that filled
\* a maker at rate r, no live maker with a better rate (lower for a bid
\* taker, higher for an ask taker) is left on the bookside the taker walked.
BestRateFirst ==
    [][PlaceOrderStep =>
        \A i \in 1..Len(last'.fills) :
            LET args == last'.args
                r == last'.fills[i].rate_bps
                left == trees'[TreeName(args.use_a_tree, ~args.is_bid)]
            IN  \A k \in 1..Len(left) :
                    is_live_maker(dynamic', global', dynamic'[left[k]],
                                  args.use_a_tree, now_slot)
                        => IF args.is_bid THEN dynamic'[left[k]].rate_bps >= r
                                          ELSE dynamic'[left[k]].rate_bps <= r]_vars

(***************************************************************************)
(* Posting: Limit, PostOnly and Global orders, some of which expire.       *)
(***************************************************************************)
Posting ==
    [OnPairA EXCEPT
        !.orders = Orders({11}, {1}, {5, 6}, {FALSE}, {TRUE}, LastValidSlots,
                          {Limit}, {TRUE})
                   \cup Orders({11}, {1}, {5, 6}, {FALSE}, {TRUE}, {0},
                               {PostOnly, Global}, {TRUE})
                   \cup Orders({22}, {1}, {5, 6}, {TRUE}, {TRUE}, LastValidSlots,
                               {Limit}, {TRUE})
                   \cup Orders({22}, {1}, {5, 6}, {TRUE}, {TRUE}, {0}, {PostOnly},
                               {TRUE})]

NextPosting ==
    \/ Tick
    \/ ClaimSeats(Posting)
    \/ Deposits(Posting)
    \/ PlaceOrders(Posting)

SpecPosting == Init /\ [][NextPosting]_vars

\* The best live maker of a bookside, the top of the book: the unexpired
\* maker with collateral that the walk from the cached best index meets
\* first; NIL if there is none.
best_live_maker(dyn, seq, now) ==
    LET live == {k \in 1..Len(seq) :
                    /\ ~is_expired(dyn[seq[k]], now)
                    /\ dyn[seq[k]].collateral_shares # 0}
    IN  IF live = {} THEN NIL
        ELSE seq[CHOOSE k \in live : \A j \in live : j <= k]

\* The limit of the order a crosses the best live maker of the other side.
crosses_best_live_maker(a) ==
    LET maker_index ==
            best_live_maker(dynamic, trees[TreeName(a.use_a_tree, ~a.is_bid)],
                            a.now_slot)
    IN  /\ maker_index # NIL
        /\ IF a.is_bid THEN dynamic[maker_index].rate_bps <= a.rate_bps
                       ELSE dynamic[maker_index].rate_bps >= a.rate_bps

\* An order of the Posting environment that place_order accepts for
\* matching: a PostOnly or Global order of a seated trader, of a valid type
\* for its side and not expired on arrival.
posted_arguments ==
    {a \in {AddOrderToMarketArgs(o[1], o[2], o[3], o[4], o[5], o[6], o[7], o[8],
                                 o[9]) : o \in Posting.orders} :
        /\ a.order_type \in {PostOnly, Global}
        /\ a.trader_index # NIL
        /\ assert_not_already_expired(a.last_valid_slot, a.now_slot)
        /\ assert_valid_order_type(a.order_type, a.is_bid) = ""}

seats_of(dyn, trader) ==
    {i \in BlockIndexes : /\ dyn[i].payload_type = ClaimedSeat
                          /\ dyn[i].trader = trader}

Cancelling ==
    [OnPairA EXCEPT
        !.orders = Orders({11}, {1}, {6}, {FALSE}, {TRUE}, {0}, {Limit}, {TRUE})
                     \cup Orders({22}, {1}, {5}, {TRUE}, {TRUE}, {0},
                                 {Limit, Reverse}, {TRUE}),
        !.pairs = Pairs]

NextCancelling ==
    \/ ClaimSeats(Cancelling)
    \/ Deposits(Cancelling)
    \/ PlaceOrders(Cancelling)
    \/ CancelOrders(Cancelling)

SpecCancelling == Init /\ [][NextCancelling]_vars

\* The orders a step takes out of the pool.
cancelled_orders ==
    {i \in BlockIndexes : /\ dynamic[i].payload_type = RestingOrder
                          /\ dynamic'[i].payload_type # RestingOrder}

base_a_withdrawable(seat) == seat.base_a_withdrawable_asset_share
base_b_withdrawable(seat) == seat.base_b_withdrawable_asset_share

\* C7: when a non-Reverse order has rested without matching and the next
\* instruction to succeed is its owner's cancel of that order, both of the
\* owner's withdrawable balances are what they were before the placement.
PlaceThenCancelRestoresBalances ==
    [][/\ CancelOrderStep
       /\ last.op = "place_order"
       /\ last.args.order_type # Reverse
       /\ last.fills = <<>>
       /\ last.evicted = 0
       /\ last.order_index # NIL
       /\ cancelled_orders = {last.order_index}
       /\ last'.trader_index = last.args.trader_index
       /\ last'.use_a_tree = last.args.use_a_tree
       => LET seat == dynamic'[last.args.trader_index]
          IN  /\ base_a_withdrawable(seat) = base_a_withdrawable(last.trader_seat)
              /\ base_b_withdrawable(seat) = base_b_withdrawable(last.trader_seat)]_vars

seat_blocks(dyn) == {i \in BlockIndexes : dyn[i].payload_type = ClaimedSeat}

\* The loans a step adds to the ledger.
loans_added ==
    {k \in LoanBlockIndexes : /\ Contains(market_loans'.tree, k)
                              /\ ~Contains(market_loans.tree, k)}

\* C8: a cancel that takes a non-global bid of trader T out of the pool
\* adds exactly one loan to the ledger (lender_index 0, borrower_index T's
\* seat, the bid's collateral and liability, rate 0), leaves the bid in no
\* tree and at the head of no bookside, puts its block at the head of the
\* free list, and changes no seat.
CancelledBidBecomesLoan ==
    [][CancelOrderStep =>
        \A i \in cancelled_orders :
            dynamic[i].is_bid /\ ~is_global(dynamic[i]) =>
                /\ dynamic[i].trader_index = last'.trader_index
                /\ Len(market_loans'.tree) = Len(market_loans.tree) + 1
                /\ Cardinality(loans_added) = 1
                /\ \A k \in loans_added :
                      LET loan == market_loans'.dynamic[k]
                      IN  /\ loan.lender_index = 0
                          /\ loan.borrower_index = last'.trader_index
                          /\ loan.collateral_shares = dynamic[i].collateral_shares
                          /\ loan.liability_shares = dynamic[i].liability_shares
                          /\ loan.rate_bps = 0
                /\ \A t \in TreeNames :
                      ~Contains(trees'[t], i) /\ fixed'.best_index[t] # i
                /\ fixed'.free_list_head_index = i
                /\ dynamic'[i] = FreeListNode(fixed.free_list_head_index)
                /\ \A j \in seat_blocks(dynamic) : dynamic'[j] = dynamic[j]]_vars

\* The orders of a tree pair that carry the sequence number.
orders_with_sequence_number(use_a_tree, order_sequence_number) ==
    {i \in BlockIndexes :
        /\ \/ Contains(trees[TreeName(use_a_tree, FALSE)], i)
           \/ Contains(trees[TreeName(use_a_tree, TRUE)], i)
        /\ dynamic[i].sequence_number = order_sequence_number}

\* C9: cancel_order fails with InvalidCancel, the accounts as they were, when
\* no order of the chosen pair carries the sequence number, when one that
\* does belongs to another trader, or when more than one does; a cancel
\* without hint that succeeds takes out the one order of the pair with the
\* sequence number, which the cancelling trader owns.
CancelBySequenceNumber ==
    /\ [](links_intact =>
            \A trader \in Traders, order_sequence_number \in SequenceNumbers,
               use_a_tree \in Pairs :
                LET trader_index == get_trader_index(dynamic, trees, trader)
                    matches == orders_with_sequence_number(use_a_tree,
                                                           order_sequence_number)
                    r == cancel_order(fixed, dynamic, trees, global, market_loans,
                                      use_a_tree, trader_index,
                                      order_sequence_number, now_slot, NIL)
                IN  \/ Cardinality(matches) # 1
                    \/ \E i \in matches : dynamic[i].trader_index # trader_index
                    => /\ r.err = "InvalidCancel"
                       /\ r.fixed = fixed /\ r.dynamic = dynamic /\ r.trees = trees
                       /\ r.global = global /\ r.market_loans = market_loans)
    /\ [][CancelOrderStep /\ last'.order_index_hint = NIL =>
            LET matches == orders_with_sequence_number(last'.use_a_tree,
                                                       last'.order_sequence_number)
            IN  /\ Cardinality(matches) = 1
                /\ \A i \in matches : dynamic[i].trader_index = last'.trader_index
                /\ cancelled_orders = matches]_vars

\* Two orders of pair A carry one sequence number, their owner's cancel by
\* that number is refused, and a cancel by sequence number has succeeded.
DuplicateSequenceNumberRefused ==
    /\ last.op = "cancel_order"
    /\ last.order_index_hint = NIL
    /\ links_intact
    /\ \E order_sequence_number \in SequenceNumbers :
          LET matches == orders_with_sequence_number(TRUE, order_sequence_number)
          IN  /\ Cardinality(matches) = 2
              /\ \E trader \in Traders :
                    LET trader_index == get_trader_index(dynamic, trees, trader)
                    IN  /\ \A i \in matches : dynamic[i].trader_index = trader_index
                        /\ cancel_order(fixed, dynamic, trees, global, market_loans,
                                        TRUE, trader_index, order_sequence_number,
                                        now_slot, NIL).err = "InvalidCancel"

\* C10: a cancel with an order-index hint inside the market account fails
\* with WrongIndexHintParams, the accounts as they were, when the hint is no
\* multiple of MARKET_BLOCK_SIZE, when its block holds no RestingOrder, when
\* the order is another trader's, or when its sequence number is not the
\* requested one; a hinted cancel that succeeds passed all four checks and
\* takes out the hinted order.
HintedCancelChecks ==
    /\ [](links_intact =>
            \A trader \in Traders, order_sequence_number \in SequenceNumbers,
               order_index_hint \in CancelHints \ {NIL}, use_a_tree \in Pairs :
                LET trader_index == get_trader_index(dynamic, trees, trader)
                    r == process_cancel_order_core(
                             fixed, dynamic, trees, global, market_loans,
                             trader_index, order_sequence_number, order_index_hint,
                             use_a_tree, now_slot)
                IN  \/ order_index_hint % MARKET_BLOCK_SIZE # 0
                    \/ dynamic[order_index_hint].payload_type # RestingOrder
                    \/ dynamic[order_index_hint].trader_index # trader_index
                    \/ dynamic[order_index_hint].sequence_number
                           # order_sequence_number
                    => /\ r.err = "WrongIndexHintParams"
                       /\ r.fixed = fixed /\ r.dynamic = dynamic /\ r.trees = trees
                       /\ r.global = global /\ r.market_loans = market_loans)
    /\ [][CancelOrderStep /\ last'.order_index_hint # NIL =>
            LET hinted == dynamic[last'.order_index_hint]
            IN  /\ last'.order_index_hint % MARKET_BLOCK_SIZE = 0
                /\ hinted.payload_type = RestingOrder
                /\ hinted.trader_index = last'.trader_index
                /\ hinted.sequence_number = last'.order_sequence_number
                /\ cancelled_orders = {last'.order_index_hint}]_vars

\* A hinted cancel has succeeded, and a hint at an order that still rests is
\* refused to the trader who does not own it.
HintAtAnotherTradersOrderRefused ==
    /\ last.op = "cancel_order"
    /\ last.order_index_hint # NIL
    /\ links_intact
    /\ \E trader \in Traders, order_index_hint \in CancelHints \ {NIL} :
          LET trader_index == get_trader_index(dynamic, trees, trader)
              hinted == dynamic[order_index_hint]
          IN  /\ order_index_hint % MARKET_BLOCK_SIZE = 0
              /\ hinted.payload_type = RestingOrder
              /\ trader_index # NIL
              /\ hinted.trader_index # trader_index
              /\ process_cancel_order_core(
                     fixed, dynamic, trees, global, market_loans, trader_index,
                     hinted.sequence_number, order_index_hint, TRUE,
                     now_slot).err = "WrongIndexHintParams"

(***************************************************************************)
(* Taker settlement.                                                       *)
(***************************************************************************)
\* The base and quote asset shares of the fills from the i-th on, added up.
RECURSIVE traded_shares(_, _)
traded_shares(fills, i) ==
    IF i > Len(fills)
    THEN [base |-> 0, quote |-> 0]
    ELSE [base |-> fills[i].base_atom_asset_shares_traded
                       + traded_shares(fills, i + 1).base,
          quote |-> fills[i].quote_atom_asset_shares_traded
                        + traded_shares(fills, i + 1).quote]

\* A seat's withdrawable shares of asset A (is_base_a) or of asset B.
withdrawable(seat, is_base_a) ==
    IF is_base_a THEN seat.base_a_withdrawable_asset_share
                 ELSE seat.base_b_withdrawable_asset_share

\* C11: a place_order that only takes (nothing rests, nothing is evicted)
\* settles its fills on the taker's seat: a bid taker's quote balance falls
\* by the quote shares of the fills and, unless the order is Reverse, its
\* base balance rises by their base shares; an ask taker's base balance
\* falls by the base shares and its quote balance is not credited.  The base
\* asset is asset A on pair A and asset B on pair B.
TakerSettlement ==
    [][PlaceOrderStep /\ last'.order_index = NIL /\ last'.evicted = 0 =>
        LET args == last'.args
            t == traded_shares(last'.fills, 1)
            before == dynamic[args.trader_index]
            after == dynamic'[args.trader_index]
            base_is_a == args.use_a_tree
        IN  IF args.is_bid
            THEN /\ withdrawable(after, ~base_is_a)
                       = withdrawable(before, ~base_is_a) - t.quote
                 /\ withdrawable(after, base_is_a)
                       = withdrawable(before, base_is_a)
                           + (IF args.order_type = Reverse THEN 0 ELSE t.base)
            ELSE /\ withdrawable(after, base_is_a)
                       = withdrawable(before, base_is_a) - t.base
                 /\ withdrawable(after, ~base_is_a)
                       = withdrawable(before, ~base_is_a)]_vars

(***************************************************************************)
(* Settling: Limit orders of both sides, some of which expire, are placed, *)
(* evicted and cancelled by sequence number.                               *)
(***************************************************************************)
Settling ==
    [OnPairA EXCEPT
        !.orders = Orders({11}, {1}, {5, 6}, {FALSE}, {TRUE}, LastValidSlots,
                          {Limit}, {TRUE})
                   \cup Orders({22}, {1}, {5, 6}, {TRUE}, {TRUE}, LastValidSlots,
                               {Limit}, {TRUE}),
        !.hints = {NIL}]

NextSettling ==
    \/ Tick
    \/ ClaimSeats(Settling)
    \/ Deposits(Settling)
    \/ PlaceOrders(Settling)
    \/ CancelOrders(Settling)

SpecSettling == Init /\ [][NextSettling]_vars

\* C12: every seat's withdrawable shares of asset A and of asset B are at
\* least 0 in every reachable state, and update_balance refuses a decrease
\* larger than the balance with InsufficientFunds and leaves the seat as it
\* was.
BalancesNeverNegative ==
    \A i \in seat_blocks(dynamic) :
        \A is_base_a \in BOOLEAN :
            /\ withdrawable(dynamic[i], is_base_a) >= 0
            /\ \A excess \in 1..DepositAtoms :
                  LET r == update_balance(dynamic, i, is_base_a, FALSE,
                                          withdrawable(dynamic[i], is_base_a) + excess)
                  IN  r.err = "InsufficientFunds" /\ r.dynamic = dynamic

\* A trader whose last order used up a balance sends an order that
\* place_order refuses with InsufficientFunds.
DecreaseRefused ==
    /\ last.op = "place_order"
    /\ \E o \in Settling.orders :
          /\ o[1] = last.args.taker
          /\ place_order(fixed, dynamic, trees, global,
                         AddOrderToMarketArgs(o[1], o[2], o[3], o[4], o[5], o[6],
                                              o[7], o[8], o[9])).err
                = "InsufficientFunds"

(***************************************************************************)
(* Sequencing: Limit asks, some at rate 0 and some that expire, meet Limit *)
(* and ImmediateOrCancel bids, some at rate 0.                             *)
(***************************************************************************)
Sequencing ==
    [OnPairA EXCEPT
        !.orders = Orders({11}, {1}, {0, 5}, {FALSE}, {TRUE}, LastValidSlots,
                          {Limit}, {TRUE})
                   \cup Orders({22}, {1}, {0, 5}, {TRUE}, {TRUE}, {0},
                               {Limit, ImmediateOrCancel}, {TRUE})]

NextSequencing ==
    \/ Tick
    \/ ClaimSeats(Sequencing)
    \/ Deposits(Sequencing)
    \/ PlaceOrders(Sequencing)

SpecSequencing == Init /\ [][NextSequencing]_vars

\* C13: a successful place_order leaves the chosen pair's order sequence
\* number exactly one above what it was, and returns that number, however
\* many makers it filled or evicted and whether or not anything rests.
SequenceNumberBumpedOnce ==
    [][PlaceOrderStep =>
        LET use_a_tree == last'.args.use_a_tree
        IN  /\ order_sequence_number_of(fixed', use_a_tree)
                  = order_sequence_number_of(fixed, use_a_tree) + 1
            /\ last'.order_sequence_number
                  = order_sequence_number_of(fixed', use_a_tree)]_vars

\* A place_order evicted a maker, filled another, and left nothing resting.
EvictedFilledAndNothingRests ==
    /\ last.op = "place_order"
    /\ last.evicted >= 1
    /\ Len(last.fills) >= 1
    /\ last.order_index = NIL

(***************************************************************************)
(* Sequence numbers of resting orders.                                     *)
(***************************************************************************)
\* The orders resting in the bid and ask trees of a pair.
resting_in_pair(trs, use_a_tree) ==
    {i \in BlockIndexes : \/ Contains(trs[TreeName(use_a_tree, TRUE)], i)
                          \/ Contains(trs[TreeName(use_a_tree, FALSE)], i)}

\* C14: no two orders resting in the trees of one pair share a sequence
\* number, and the order a place_order leaves resting, a Reverse repost
\* included, has a sequence number above that of every order that already
\* rested in the trees of the pair it is linked into.
SequenceNumbersIncrease ==
    /\ [](\A use_a_tree \in BOOLEAN :
             \A i, j \in resting_in_pair(trees, use_a_tree) :
                 i # j => dynamic[i].sequence_number # dynamic[j].sequence_number)
    /\ [][PlaceOrderStep /\ last'.order_index # NIL =>
             \A use_a_tree \in BOOLEAN :
                 last'.order_index \in resting_in_pair(trees', use_a_tree) =>
                     \A i \in resting_in_pair(trees, use_a_tree) :
                         dynamic'[last'.order_index].sequence_number
                             > dynamic[i].sequence_number]_vars

(***************************************************************************)
(* Eviction of expired makers.                                             *)
(***************************************************************************)
\* A maker the matching loop evicts: expired, or without collateral.
is_stale_maker(order, now) ==
    is_expired(order, now) \/ order.collateral_shares = 0

\* The maker's rate is within the limit of the order a.
within_limit(a, maker_order) ==
    IF a.is_bid THEN maker_order.rate_bps <= a.rate_bps
                ELSE maker_order.rate_bps >= a.rate_bps

\* C15: when the maker at the top of the book the taker walks is expired or
\* has no collateral, place_order removes it, and every such maker ahead of
\* the first live one, whatever their rates; matching then goes on with the
\* first live maker: it is the first one filled if its rate is within the
\* taker's limit, and nothing is filled otherwise.
EvictionBeforeRateLimit ==
    [][PlaceOrderStep =>
        LET a == last'.args
            opposite == TreeName(a.use_a_tree, ~a.is_bid)
            top == fixed.best_index[opposite]
            next == best_live_maker(dynamic, trees[opposite], a.now_slot)
        IN  (top # NIL /\ is_stale_maker(dynamic[top], a.now_slot)) =>
                /\ last'.evicted >= 1
                /\ \A k \in 1..Len(trees[opposite]) :
                       (\A j \in k..Len(trees[opposite]) :
                            is_stale_maker(dynamic[trees[opposite][j]], a.now_slot))
                           => ~Contains(trees'[opposite], trees[opposite][k])
                /\ IF next # NIL /\ within_limit(a, dynamic[next])
                   THEN /\ Len(last'.fills) >= 1
                        /\ last'.fills[1].maker_order_index = next
                   ELSE last'.fills = <<>>]_vars

\* An order meets an expired maker at the top of the book whose rate is
\* beyond its limit, with a live maker behind it: place_order evicts the
\* expired maker.
ExpiredBeyondLimitEvicted ==
    \E o \in Settling.orders :
        LET a == AddOrderToMarketArgs(o[1], o[2], o[3], o[4], o[5], o[6], o[7],
                                      o[8], o[9])
            opposite == TreeName(a.use_a_tree, ~a.is_bid)
            top == fixed.best_index[opposite]
        IN  /\ top # NIL
            /\ is_expired(dynamic[top], a.now_slot)
            /\ ~within_limit(a, dynamic[top])
            /\ best_live_maker(dynamic, trees[opposite], a.now_slot) # NIL
            /\ place_order(fixed, dynamic, trees, global, a).err = ""
            /\ place_order(fixed, dynamic, trees, global, a).evicted >= 1

\* The makers a place_order step evicts: the expired or unbacked makers of
\* the bookside the taker walks that the step takes out of it.
evicted_makers ==
    LET a == last'.args
        opposite == TreeName(a.use_a_tree, ~a.is_bid)
    IN  {i \in BlockIndexes : /\ Contains(trees[opposite], i)
                              /\ is_stale_maker(dynamic[i], a.now_slot)
                              /\ ~Contains(trees'[opposite], i)}

\* C16: an expired or unbacked non-global ask that place_order walks is
\* taken out of every tree, its block goes back to the free list (unless the
\* taker's own order takes it at once), no FillLog names it, and its owner's
\* seat gets back exactly its collateral_shares on the asset that was
\* debited when the ask rested, the other asset being left alone.
ExpiredAskRefunded ==
    [][PlaceOrderStep =>
        \A i \in evicted_makers :
            LET order == dynamic[i]
                owner == order.trader_index
                rested_on_a == should_update_base_a(order.is_a_tree, ~order.is_bid)
            IN  (~order.is_bid /\ ~is_global(order)) =>
                    /\ \/ last'.order_index = i
                       \/ /\ \A t \in TreeNames : ~Contains(trees'[t], i)
                          /\ dynamic'[i].payload_type = Empty
                    /\ \A f \in 1..Len(last'.fills) :
                           last'.fills[f].maker_order_index # i
                    /\ (/\ owner # last'.args.trader_index
                        /\ \A j \in evicted_makers :
                               dynamic[j].trader_index = owner => j = i)
                           => /\ withdrawable(dynamic'[owner], rested_on_a)
                                    = withdrawable(dynamic[owner], rested_on_a)
                                        + order.collateral_shares
                              /\ withdrawable(dynamic'[owner], ~rested_on_a)
                                    = withdrawable(dynamic[owner], ~rested_on_a)]_vars

\* The loans of a place_order on the underlying protocol: lender 0, rate 0.
protocol_loans(matched_loans) ==
    {k \in 1..Len(matched_loans) : /\ matched_loans[k].lender_index = 0
                                   /\ matched_loans[k].rate_bps = 0}

\* C17: an expired bid that place_order walks is taken out of every tree
\* and its block freed, its owner's seat is left as it was, and
\* matched_loans gets one loan with lender_index 0 and rate 0 for each such
\* bid, carrying the bid's collateral_shares and liability_shares.
ExpiredBidBecomesLoan ==
    [][PlaceOrderStep =>
        LET bids == {i \in evicted_makers : dynamic[i].is_bid}
            loans == last'.matched_loans
        IN  /\ bids # {} => Cardinality(protocol_loans(loans)) = Cardinality(bids)
            /\ \A i \in bids :
                  LET order == dynamic[i]
                      owner == order.trader_index
                  IN  /\ \/ last'.order_index = i
                         \/ /\ \A t \in TreeNames : ~Contains(trees'[t], i)
                            /\ dynamic'[i].payload_type = Empty
                      /\ owner # last'.args.trader_index
                             => dynamic'[owner] = dynamic[owner]
                      /\ \E k \in protocol_loans(loans) :
                             /\ loans[k].collateral_shares = order.collateral_shares
                             /\ loans[k].liability_shares = order.liability_shares]_vars

\* An ask taker walked an expired bid, which became a loan on the underlying
\* protocol.
ExpiredBidEvicted ==
    /\ last.op = "place_order"
    /\ ~last.args.is_bid
    /\ last.evicted >= 1
    /\ protocol_loans(last.matched_loans) # {}

(***************************************************************************)
(* Reverse reposts.                                                        *)
(***************************************************************************)
\* The base atoms the fills from the i-th on traded against global makers.
RECURSIVE global_base_atoms_traded(_, _)
global_base_atoms_traded(fills, i) ==
    IF i > Len(fills) THEN 0
    ELSE (IF fills[i].is_maker_global THEN fills[i].base_atoms ELSE 0)
             + global_base_atoms_traded(fills, i + 1)

\* The step left a repost: the order it returns is a Limit ask although the
\* order placed was a Reverse bid.
reposted ==
    /\ last'.args.order_type = Reverse
    /\ last'.order_index # NIL
    /\ dynamic'[last'.order_index].order_type = Limit
    /\ ~dynamic'[last'.order_index].is_bid

\* C18: a successful Reverse bid leaves a repost if and only if it filled
\* something.  The repost is a Limit ask in the asks tree of the opposite
\* pair, sized as the asset shares of total_base_atoms_traded +
\* global_base_atoms_traded + remaining_base_atoms, and it takes the
\* opposite pair's order sequence number bumped by one.
RepostIffFilled ==
    [][PlaceOrderStep /\ last'.args.order_type = Reverse =>
        LET a == last'.args
            repost == dynamic'[last'.order_index]
            reverse_base_atoms ==
                last'.base_atoms_traded
                    + global_base_atoms_traded(last'.fills, 1)
                    + (a.num_base_atoms - last'.base_atoms_traded)
        IN  /\ reposted <=> last'.fills # <<>>
            /\ reposted =>
                  /\ Contains(trees'[TreeName(~a.use_a_tree, FALSE)], last'.order_index)
                  /\ repost.collateral_shares
                         = convert_tokens_to_asset_shares(reverse_base_atoms,
                                                          BaseBank(a.use_a_tree))
                  /\ order_sequence_number_of(fixed', ~a.use_a_tree)
                         = order_sequence_number_of(fixed, ~a.use_a_tree) + 1
                  /\ repost.sequence_number
                         = order_sequence_number_of(fixed', ~a.use_a_tree)]_vars

(***************************************************************************)
(* Reversing: Reverse bids with and without a spread and an expiry, at a   *)
(* small and at a common rate, meet Limit asks.                            *)
(***************************************************************************)
Reversing ==
    [OnPairA EXCEPT
        !.orders = Orders({11}, {1}, {5}, {FALSE}, {TRUE}, {0}, {Limit}, {TRUE})
                   \cup ({22} \X {1} \X {5, 600} \X {0, 100} \X {TRUE} \X {TRUE}
                             \X LastValidSlots \X {Reverse} \X {TRUE})]

NextReversing ==
    \/ Tick
    \/ ClaimSeats(Reversing)
    \/ Deposits(Reversing)
    \/ PlaceOrders(Reversing)

SpecReversing == Init /\ [][NextReversing]_vars

\* C19: for every rate and every spread of at most 10000 bps, the rate of a
\* Reverse repost is floor(rate_bps * (10000 - reverse_spread_bps) / 10000):
\* no Reverse bid of a seated trader fails with NumericalOverflow (rate 600
\* with spread 100 gives 594), and a repost carries that rate.
ReverseRateIsFloor ==
    /\ [](\A o \in Reversing.orders :
             LET a == AddOrderToMarketArgs(o[1], o[2], o[3], o[4], o[5], o[6], o[7],
                                           o[8], o[9])
             IN  (a.trader_index # NIL /\ a.reverse_spread_bps <= 10000) =>
                     place_order(fixed, dynamic, trees, global, a).err
                         # "NumericalOverflow")
    /\ [][PlaceOrderStep /\ reposted =>
             dynamic'[last'.order_index].rate_bps
                 = (last'.args.rate_bps * (10000 - last'.args.reverse_spread_bps))
                       \div 10000]_vars

\* C20: the ask a Reverse bid reposts is a Limit order that never expires:
\* its last_valid_slot is 0 whatever last_valid_slot the bid carried.
RepostNeverExpires ==
    [][PlaceOrderStep /\ reposted =>
        /\ dynamic'[last'.order_index].order_type = Limit
        /\ dynamic'[last'.order_index].last_valid_slot
               = NO_EXPIRATION_LAST_VALID_SLOT]_vars

(***************************************************************************)
(* Globals: trader 11 rests Global asks, some of which expire, backed or   *)
(* not by a global deposit of asset A, and a Limit ask behind them; trader *)
(* 22 takes with bids, with or without the global accounts.                *)
(***************************************************************************)
Globals ==
    [OnPairA EXCEPT
        !.global_deposits = {<<11, "A">>},
        !.orders = Orders({11}, {1}, {5}, {FALSE}, {TRUE}, LastValidSlots, {Global},
                          {TRUE})
                   \cup Orders({11}, {1}, {6}, {FALSE}, {TRUE}, {0}, {Limit}, {TRUE})
                   \cup Orders({22}, BaseAtoms, {6}, {TRUE}, {TRUE}, {0},
                               {Limit, ImmediateOrCancel}, GlobalAccountsSupplied),
        !.hints = {NIL}]

NextGlobals ==
    \/ Tick
    \/ ClaimSeats(Globals)
    \/ Deposits(Globals)
    \/ GlobalDeposits(Globals)
    \/ PlaceOrders(Globals)
    \/ CancelOrders(Globals)

SpecGlobals == Init /\ [][NextGlobals]_vars

\* The atoms the matching loop asks of a maker when the taker still wants
\* remaining_base_atoms.
atoms_requested(maker_order, use_a_tree, remaining_base_atoms) ==
    LET maker_base_atoms == get_num_base_atoms(maker_order, BaseBank(use_a_tree))
    IN  IF remaining_base_atoms >= maker_base_atoms THEN maker_base_atoms
                                                    ELSE remaining_base_atoms

\* The maker at the top of the book the order a walks is a live global ask
\* within a's limit whose owner has deposited less than a asks of it.
unbacked_at_top(a) ==
    LET top == fixed.best_index[TreeName(a.use_a_tree, ~a.is_bid)]
    IN  /\ top # NIL
        /\ is_global(dynamic[top])
        /\ ~is_stale_maker(dynamic[top], a.now_slot)
        /\ within_limit(a, dynamic[top])
        /\ global[BaseMint(a.use_a_tree)].balance[dynamic[dynamic[top].trader_index].trader]
              < atoms_requested(dynamic[top], a.use_a_tree, a.num_base_atoms)

\* C21: try_to_move_global_tokens asked for more than the depositor holds
\* moves nothing and reports unbacked; a place_order that meets an unbacked
\* global ask at the top of the book takes it out of the book (its block is
\* free for the taker's own order to take), names it in no FillLog, pays the
\* gas prepayment to the taker, and goes on with the next maker with the
\* taker's remaining size and balances untouched: a live non-global maker
\* next in line and within the limit gets the first fill, for the size asked
\* of it with nothing traded before, and without any fill and nothing
\* resting the taker's seat and the global deposits are as they were.
UnbackedGlobalEvicted ==
    /\ [](\A trader \in Traders, mint \in Mints, desired_global_atoms \in 1..3 :
             desired_global_atoms > global[mint].balance[trader] =>
                 LET moved == try_to_move_global_tokens(global, mint, trader,
                                                        desired_global_atoms)
                 IN  ~moved.has_enough_tokens /\ moved.global = global)
    /\ [][PlaceOrderStep /\ unbacked_at_top(last'.args) =>
             LET a == last'.args
                 opposite == TreeName(a.use_a_tree, ~a.is_bid)
                 top == fixed.best_index[opposite]
                 next == get_next_lower_index(trees, top)
                 mint == BaseMint(a.use_a_tree)
             IN  /\ \/ last'.order_index = top
                    \/ \A t \in TreeNames : ~Contains(trees'[t], top)
                 /\ \A f \in 1..Len(last'.fills) :
                        last'.fills[f].maker_order_index # top
                 /\ last'.evicted >= 1
                 /\ last'.gas_received >= GAS_DEPOSIT_LAMPORTS
                 /\ global'[mint].lamports <= global[mint].lamports - GAS_DEPOSIT_LAMPORTS
                 /\ (/\ next # NIL
                     /\ ~is_global(dynamic[next])
                     /\ ~is_stale_maker(dynamic[next], a.now_slot)
                     /\ within_limit(a, dynamic[next])) =>
                        /\ Len(last'.fills) >= 1
                        /\ last'.fills[1].maker_order_index = next
                        /\ last'.fills[1].base_atoms
                               = atoms_requested(dynamic[next], a.use_a_tree,
                                                 a.num_base_atoms)
                 /\ (last'.fills = <<>> /\ last'.order_index = NIL) =>
                        /\ dynamic'[a.trader_index] = dynamic[a.trader_index]
                        /\ global'[mint].balance = global[mint].balance]_vars

\* At slot 0, where nothing has expired, a place_order evicted a maker, was
\* paid its gas prepayment, and then filled the maker behind it.
UnbackedEvictedThenFilled ==
    /\ last.op = "place_order"
    /\ last.args.now_slot = 0
    /\ last.evicted >= 1
    /\ last.gas_received >= GAS_DEPOSIT_LAMPORTS
    /\ Len(last.fills) >= 1

\* The global orders resting on the asks of the pair whose base is the mint.
resting_global_orders(dyn, trs, mint) ==
    {i \in BlockIndexes :
        \E use_a_tree \in BOOLEAN :
            /\ BaseMint(use_a_tree) = mint
            /\ Contains(trs[TreeName(use_a_tree, FALSE)], i)
            /\ is_global(dyn[i])}

\* C22: the gas prepayments a global account holds are always
\* GAS_DEPOSIT_LAMPORTS times the number of global orders resting on its
\* mint: each global ask that rests pays one in, and each removal (cancel,
\* full fill, eviction of an expired or unbacked order) pays one out.
GasPrepaymentsConserved ==
    \A mint \in Mints :
        global[mint].lamports
            = GAS_DEPOSIT_LAMPORTS
                * Cardinality(resting_global_orders(dynamic, trees, mint))

(***************************************************************************)
(* The loan ledger on its own: its operations in any order.  The ledger's  *)
(* buffer holds num_bytes_allocated bytes, both growing by n blocks at a   *)
(* time, and a block outside the buffer cannot be written: the call        *)
(* panics.  An operation that fails leaves the ledger as it was.           *)
(***************************************************************************)
\* add_loan: the loan is inserted first, the cap is looked at afterwards.
\* The result carries the ledger as the call leaves it, error or not.
add_loan(ml, loan_record, stale_link) ==
    LET r == add_loans_from([err |-> "", ml |-> ml, stale |-> FALSE], <<loan_record>>,
                            1, stale_link)
    IN  IF r.err # "" THEN r
        ELSE IF ~(ml.fixed.num_active_loans < MAX_ACTIVE_LOANS)
        THEN [r EXCEPT !.err = "MaxActiveLoansExceeded",
                       !.ml.fixed.num_active_loans = ml.fixed.num_active_loans]
        ELSE r

\* The loans lookup_index can return for a sequence number: the loans of the
\* tree that carry it (the first of them that the descent from the root
\* meets).
loans_with_sequence_number(ml, sequence_number) ==
    {i \in LoanBlockIndexes : /\ Contains(ml.tree, i)
                              /\ ml.dynamic[i].sequence_number = sequence_number}

\* remove_loan once lookup_index has returned loan_index.
remove_loan(ml, loan_index) ==
    IF loan_index = NIL
    THEN [err |-> "InvalidFreeList", ml |-> ml]
    ELSE LET fl == FreeListAdd(ml.dynamic, ml.fixed.free_list_head_index, loan_index)
         IN  [err |-> "",
              ml |-> [ml EXCEPT !.tree = RemoveFromSeq(@, loan_index),
                                !.dynamic = fl.dynamic,
                                !.fixed.free_list_head_index = fl.head,
                                !.fixed.num_active_loans = @ - 1]]

\* The loan records handed to the ledger, and the batches of them.
LoanRecords ==
    {ActiveLoan_new_empty(TRUE, 0, borrower_index, FALSE, 2, 1, rate_bps, 0) :
        borrower_index \in {0, MARKET_BLOCK_SIZE}, rate_bps \in {0, 5}}

LoanBatches ==
    {<<>>} \cup {<<l>> : l \in LoanRecords}
           \cup {<<l1, l2>> : l1 \in LoanRecords, l2 \in LoanRecords}

LedgerWithinBounds(ml) ==
    /\ ml.fixed.num_active_loans <= MaxLoans
    /\ ml.fixed.num_bytes_allocated <= (MaxLoans + 1) * MARKET_LOAN_BLOCK_SIZE

LedgerStep(op, ml) ==
    /\ LedgerWithinBounds(ml)
    /\ market_loans' = ml
    /\ last' = [op |-> op, err |-> ""]
    /\ UNCHANGED <<now_slot, fixed, dynamic, trees, global, links_intact>>

\* expand_market_loans: expand_dynamic grows the buffer by n blocks, then
\* expand_loan_account puts the block at num_bytes_allocated on the free
\* list, which panics unless that block is inside the grown buffer.
ExpandMarketLoans(n) ==
    /\ market_loans.fixed.num_bytes_allocated + MARKET_LOAN_BLOCK_SIZE
          <= market_loans.fixed.num_bytes_allocated + n * MARKET_LOAN_BLOCK_SIZE
    /\ LedgerStep("expand_loan_account", expand_market_loans(market_loans, n))

AddLoans(loan_records) ==
    \E stale_link \in LoanLinks(market_loans, loan_records) :
        LET r == add_loans(market_loans, loan_records, stale_link)
        IN  r.err = "" /\ LedgerStep("add_loans", r.ml)

AddLoan(loan_record) ==
    \E stale_link \in LoanLinks(market_loans, <<loan_record>>) :
        LET r == add_loan(market_loans, loan_record, stale_link)
        IN  r.err = "" /\ LedgerStep("add_loan", r.ml)

RemoveLoan(sequence_number) ==
    \E loan_index \in loans_with_sequence_number(market_loans, sequence_number) :
        LET r == remove_loan(market_loans, loan_index)
        IN  r.err = "" /\ LedgerStep("remove_loan", r.ml)

\* The end of process_place_order_core: expand_market_loans by the number of
\* matched loans, then try_to_add_new_loans.  An error of either is the
\* instruction's.
add_new_loans(ml, matched_loans, stale_link) ==
    IF ml.fixed.num_bytes_allocated + MARKET_LOAN_BLOCK_SIZE
          > ml.fixed.num_bytes_allocated + Len(matched_loans) * MARKET_LOAN_BLOCK_SIZE
    THEN [err |-> "Panic", ml |-> ml, stale |-> FALSE]
    ELSE add_loans(expand_market_loans(ml, Len(matched_loans)), matched_loans,
                   stale_link)

AddNewLoans(matched_loans) ==
    \E stale_link \in LoanLinks(expand_market_loans(market_loans, Len(matched_loans)),
                                matched_loans) :
        LET r == add_new_loans(market_loans, matched_loans, stale_link)
        IN  r.err = "" /\ LedgerStep("add_new_loans", r.ml)

NextLedger ==
    \/ \E n \in 0..2 : ExpandMarketLoans(n)
    \/ \E matched_loans \in LoanBatches : AddNewLoans(matched_loans)
    \/ \E loan_records \in LoanBatches : AddLoans(loan_records)
    \/ \E loan_record \in LoanRecords : AddLoan(loan_record)
    \/ \E sequence_number \in 0..MaxLoans : RemoveLoan(sequence_number)

SpecLedger == Init /\ [][NextLedger]_vars

\* The blocks of the ledger that hold a loan.
loan_blocks(ml) == {i \in LoanBlockIndexes : Contains(ml.tree, i)}

LoanSequenceNumbersDistinct ==
    /\ \A i, j \in loan_blocks(market_loans) :
          i # j => market_loans.dynamic[i].sequence_number
                     # market_loans.dynamic[j].sequence_number
    /\ \A i \in loan_blocks(market_loans) :
          /\ market_loans.dynamic[i].sequence_number
                < market_loans.fixed.loan_sequence_number
          /\ loans_with_sequence_number(market_loans,
                                        market_loans.dynamic[i].sequence_number) = {i}

\* The blocks a walk of a free list meets, from its head to NIL or to the
\* first block that is not a free-list node, in at most fuel steps.
RECURSIVE free_list_walk(_, _, _)
free_list_walk(dyn, head, fuel) ==
    IF head = NIL \/ fuel = 0
    THEN <<>>
    ELSE IF "next_index" \in DOMAIN dyn[head]
    THEN <<head>> \o free_list_walk(dyn, dyn[head].next_index, fuel - 1)
    ELSE <<head>>

loan_free_list(ml) ==
    free_list_walk(ml.dynamic, ml.fixed.free_list_head_index,
                   Cardinality(LoanBlockIndexes) + 1)

\* The slots of the ledger: {0, 96, ..., num_bytes_allocated - 96}.
loan_slots(ml) == {i \in LoanBlockIndexes : i < ml.fixed.num_bytes_allocated}

\* C26: num_bytes_allocated is 96 times the number of slots of the ledger,
\* each of which is on the free list or holds a loan, never both; and no
\* free-list entry lies outside {0, 96, ..., num_bytes_allocated - 96}.
LoanAllocatorPartition ==
    LET free == {loan_free_list(market_loans)[k] :
                    k \in 1..Len(loan_free_list(market_loans))}
        loans == loan_blocks(market_loans)
    IN  /\ free \cup loans = loan_slots(market_loans)
        /\ free \cap loans = {}
        /\ market_loans.fixed.num_bytes_allocated
              = MARKET_LOAN_BLOCK_SIZE * Cardinality(free \cup loans)

market_free_list(f, dyn) ==
    free_list_walk(dyn, f.free_list_head_index, MaxBlocks + 1)

\* The slots of the market: {0, 112, ..., num_bytes_allocated - 112}.
market_slots(f) == {i \in BlockIndexes : i < f.num_bytes_allocated}

\* The occupied slots: the claimed seats and the resting orders.
occupied_slots(trs) ==
    {i \in BlockIndexes : \E t \in DOMAIN trs : Contains(trs[t], i)}

\* C25: the free-list slots and the occupied slots (seats and resting
\* orders) are disjoint and together are exactly
\* {0, 112, ..., num_bytes_allocated - 112}; no slot is on the free list
\* while linked in a tree, be it by the tree's nodes or by the tree's
\* header; none is on the free list twice, and none is linked in a tree
\* twice.
MarketAllocatorPartition ==
    LET walk == market_free_list(fixed, dynamic)
        free == {walk[k] : k \in 1..Len(walk)}
        occupied == occupied_slots(trees)
    IN  /\ free \cup occupied = market_slots(fixed)
        /\ free \cap occupied = {}
        /\ Cardinality(free) = Len(walk)
        /\ \A i \in free : dynamic[i].payload_type = Empty
        /\ \A t \in TreeNames : fixed.best_index[t] \notin free
        /\ \A t1, t2 \in DOMAIN trees : \A k1 \in 1..Len(trees[t1]), k2 \in 1..Len(trees[t2]) :
              trees[t1][k1] = trees[t2][k2] => t1 = t2 /\ k1 = k2

\* The in-order maximum of a bookside: the last slot of its in-order
\* sequence, NIL if the tree is empty.
in_order_maximum(trs, name) ==
    IF trs[name] = <<>> THEN NIL ELSE trs[name][Len(trs[name])]

\* C27: for each of the four booksides the best index cached in the market
\* header is the tree's in-order maximum, the order of the lowest rate in a
\* tree of asks and of the highest rate in a tree of bids, and it is NIL
\* exactly when the tree is empty.
BestIndexIsMaximum ==
    \A use_a_tree \in BOOLEAN, is_bid \in BOOLEAN :
        LET name == TreeName(use_a_tree, is_bid)
            best == fixed.best_index[name]
        IN  /\ best = in_order_maximum(trees, name)
            /\ best = NIL <=> trees[name] = <<>>
            /\ \A k \in 1..Len(trees[name]) :
                  IF is_bid
                  THEN get_helper_order(dynamic, trees[name][k]).rate_bps
                         <= get_helper_order(dynamic, best).rate_bps
                  ELSE get_helper_order(dynamic, trees[name][k]).rate_bps
                         >= get_helper_order(dynamic, best).rate_bps

(***************************************************************************)
(* Order types: asks and bids of the types Limit, Global and Reverse.      *)
(***************************************************************************)
Typing ==
    [OnPairA EXCEPT
        !.global_deposits = {<<11, "A">>},
        !.orders = Orders({11}, {1}, {5}, {FALSE}, {TRUE}, {0},
                          {Limit, Global, Reverse}, {TRUE})
                   \cup Orders({22}, {1}, {6}, {TRUE}, {TRUE}, LastValidSlots,
                               {Limit, Global, Reverse}, {TRUE}),
        !.hints = {NIL}]

NextTyping ==
    \/ Tick
    \/ ClaimSeats(Typing)
    \/ Deposits(Typing)
    \/ GlobalDeposits(Typing)
    \/ PlaceOrders(Typing)

SpecTyping == Init /\ [][NextTyping]_vars

\* The orders of the environment whose type does not go with their side,
\* as the arguments place_order gets in the current state.
mistyped_orders ==
    {AddOrderToMarketArgs(o[1], o[2], o[3], o[4], o[5], o[6], o[7], o[8], o[9]) :
        o \in {o \in Typing.orders : \/ o[5] /\ o[8] = Global
                                     \/ ~o[5] /\ o[8] = Reverse}}

PostTimeExpiryIsExpired ==
    \A o \in Typing.orders :
        LET a == AddOrderToMarketArgs(o[1], o[2], o[3], o[4], o[5], o[6], o[7], o[8],
                                      o[9])
            rejected == place_order(fixed, dynamic, trees, global, a).err
                          = "AlreadyExpired"
        IN  a.trader_index # NIL =>
                /\ rejected <=> (a.last_valid_slot # NO_EXPIRATION_LAST_VALID_SLOT
                                   /\ a.last_valid_slot < a.now_slot)
                /\ rejected <=> is_expired([last_valid_slot |-> a.last_valid_slot],
                                           a.now_slot)

(***************************************************************************)
(* Returning early: Limit asks, Limit and ImmediateOrCancel bids, at rate  *)
(* 0 and above.                                                            *)
(***************************************************************************)
Returning ==
    [OnPairA EXCEPT
        !.orders = Orders({11}, BaseAtoms, {0, 5}, {FALSE}, {TRUE}, {0}, {Limit},
                          {TRUE})
                   \cup Orders({22}, BaseAtoms, {0, 6}, {TRUE}, {TRUE}, {0},
                               {Limit, ImmediateOrCancel}, {TRUE})]

NextReturning ==
    \/ ClaimSeats(Returning)
    \/ Deposits(Returning)
    \/ PlaceOrders(Returning)

SpecReturning == Init /\ [][NextReturning]_vars

\* The base atoms of the fills from the i-th on.
RECURSIVE fills_base_atoms(_, _)
fills_base_atoms(fills, i) ==
    IF i > Len(fills) THEN 0 ELSE fills[i].base_atoms + fills_base_atoms(fills, i + 1)

\* C30: a successful place_order of an ImmediateOrCancel order, of an order
\* at rate 0, or of an order that the matching has filled in full returns
\* order_index = NIL and leaves in every tree a subset of the orders that
\* rested before; the loans it returns are added to the ledger.
EarlyReturnNeverRests ==
    [][PlaceOrderStep
         /\ (\/ last'.args.order_type = ImmediateOrCancel
             \/ last'.args.rate_bps = 0
             \/ fills_base_atoms(last'.fills, 1) = last'.args.num_base_atoms)
       => /\ last'.order_index = NIL
          /\ \A name \in TreeNames :
                {trees'[name][k] : k \in 1..Len(trees'[name])}
                    \subseteq {trees[name][k] : k \in 1..Len(trees[name])}
          /\ market_loans'.fixed.num_active_loans
                = market_loans.fixed.num_active_loans + Len(last'.matched_loans)]_vars

\* An ImmediateOrCancel bid has matched part of its size and returned, the
\* rest of it not resting.
PartlyFilledReturned ==
    /\ last.op = "place_order"
    /\ last.args.order_type = ImmediateOrCancel
    /\ Len(last.fills) >= 1
    /\ fills_base_atoms(last.fills, 1) < last.args.num_base_atoms
    /\ last.order_index = NIL
    /\ Len(last.matched_loans) >= 1

(***************************************************************************)
(* The collateral of one resting bid, followed from the moment it rests    *)
(* through its partial fills, for banks of share value 1 and oracle prices *)
(* that make one base atom need 1/4, 1/2, 1 or 2 quote atoms.  last holds  *)
(* the banks and the bid.                                                  *)
(***************************************************************************)
PricedBank(price) ==
    [asset_share_value |-> ONE, liability_share_value |-> ONE,
     asset_weight_init |-> ONE, liability_weight_init |-> ONE,
     mint_decimals |-> 0, price |-> price]

\* place_order rests a bid of num_base_atoms: the shares of the remainder.
RestBid(num_base_atoms, base_bank, quote_bank) ==
    /\ last' = [op |-> "rest_bid", err |-> "",
                base_bank |-> base_bank, quote_bank |-> quote_bank, fills |-> 0,
                order |-> new_resting_order(
                    5, 1,
                    convert_tokens_to_asset_shares(
                        get_required_quote_collateral_to_back_loan(
                            base_bank, quote_bank, num_base_atoms),
                        quote_bank),
                    convert_tokens_to_liability_shares(num_base_atoms, base_bank),
                    TRUE, 0, NO_EXPIRATION_LAST_VALID_SLOT, Limit, TRUE)]
    /\ UNCHANGED <<now_slot, fixed, dynamic, trees, global, market_loans, links_intact>>

\* The matching loop meets the bid with fewer atoms left than the bid has:
\* the partial-match branch reduces it by the atoms traded and by the quote
\* atoms required to back them.  A bid without collateral is evicted instead.
ReduceBid(base_atoms_traded) ==
    /\ last.op \in {"rest_bid", "reduce_bid"}
    /\ last.order.collateral_shares # 0
    /\ base_atoms_traded < get_num_base_atoms(last.order, last.base_bank)
    /\ last' = [last EXCEPT
                    !.op = "reduce_bid",
                    !.fills = @ + 1,
                    !.order = reduce_bid(@, last.base_bank, last.quote_bank,
                                         get_required_quote_collateral_to_back_loan(
                                             last.base_bank, last.quote_bank,
                                             base_atoms_traded),
                                         base_atoms_traded)]
    /\ UNCHANGED <<now_slot, fixed, dynamic, trees, global, market_loans, links_intact>>

NextBids ==
    \/ \E num_base_atoms \in 1..MaxBidAtoms, base_price \in {ONE, 2 * ONE},
          quote_price \in {ONE, 4 * ONE} :
            RestBid(num_base_atoms, PricedBank(base_price), PricedBank(quote_price))
    \/ \E base_atoms_traded \in 1..MaxBidAtoms : ReduceBid(base_atoms_traded)

SpecBids == Init /\ [][NextBids]_vars

\* C31: for a resting bid the quote collateral required to back the atoms of
\* its liability shares is at most the atoms of its collateral shares plus
\* 1, right after it rests and after each partial fill of it.
RestingBidCollateralised ==
    last.op \in {"rest_bid", "reduce_bid"} =>
        get_required_quote_collateral_to_back_loan(
            last.base_bank, last.quote_bank,
            get_token_amount_to_repay_liability_shares(last.order.liability_shares,
                                                       last.base_bank))
          <= convert_asset_shares_to_tokens(last.order.collateral_shares,
                                            last.quote_bank) + 1

(***************************************************************************)
(* The two tree pairs.                                                     *)
(***************************************************************************)
\* The pair a successful place_order or cancel_order step names.
pair_of_step ==
    IF last'.op = "place_order" THEN last'.args.use_a_tree ELSE last'.use_a_tree

\* C32: a place_order or a cancel_order that names one tree pair leaves the
\* other pair's bid and ask trees, best indexes, resting orders and sequence
\* number as they were; a Reverse order alone may add one ask to the other
\* pair's ask tree and bump the other pair's sequence number by one.
TreePairIndependence ==
    [][PlaceOrderStep \/ CancelOrderStep =>
          LET other == ~pair_of_step
              bids == TreeName(other, TRUE)
              asks == TreeName(other, FALSE)
              is_reverse == /\ last'.op = "place_order"
                            /\ last'.args.order_type = Reverse
          IN  /\ trees'[bids] = trees[bids]
              /\ fixed'.best_index[bids] = fixed.best_index[bids]
              /\ \A i \in resting_in_pair(trees, other) : dynamic'[i] = dynamic[i]
              /\ IF is_reverse
                 THEN /\ \/ trees'[asks] = trees[asks]
                         \/ \E i \in BlockIndexes :
                               /\ ~Contains(trees[asks], i)
                               /\ RemoveFromSeq(trees'[asks], i) = trees[asks]
                               /\ ~dynamic'[i].is_bid
                      /\ order_sequence_number_of(fixed', other)
                           - order_sequence_number_of(fixed, other) \in {0, 1}
                 ELSE /\ trees'[asks] = trees[asks]
                      /\ fixed'.best_index[asks] = fixed.best_index[asks]
                      /\ order_sequence_number_of(fixed', other)
                           = order_sequence_number_of(fixed, other)]_vars

(***************************************************************************)
(* The life of a resting order.                                            *)
(***************************************************************************)
\* The orders a step takes out of the trees of a pair.
removed_from_pair(use_a_tree) ==
    resting_in_pair(trees, use_a_tree) \ resting_in_pair(trees', use_a_tree)

\* C33: once a place_order or a cancel_order has taken an order out of the
\* trees of a pair, a cancel for that order's sequence number on that pair,
\* by whichever trader, by sequence number or with a hint at the order's old
\* block, fails and leaves the seats and the loan ledger as they are.
RemovedOrderStaysRemoved ==
    [][(PlaceOrderStep \/ CancelOrderStep) /\ links_intact' =>
          \A use_a_tree \in BOOLEAN : \A i \in removed_from_pair(use_a_tree) :
              \A trader \in Traders, order_index_hint \in {NIL, i} :
                  LET r == process_cancel_order_core(
                               fixed', dynamic', trees', global', market_loans',
                               get_trader_index(dynamic', trees', trader),
                               dynamic[i].sequence_number, order_index_hint,
                               use_a_tree, now_slot')
                  IN  /\ r.err # ""
                      /\ r.dynamic = dynamic'
                      /\ r.market_loans = market_loans']_vars

(***************************************************************************)
(* The loans of a PlaceOrder instruction.                                  *)
(***************************************************************************)
\* C34: whatever loans place_order has matched, none, one or two, and
\* whatever the ledger holds from earlier calls, the end of the PlaceOrder
\* instruction succeeds and raises num_active_loans by their number.
MatchedLoansAppended ==
    \A matched_loans \in LoanBatches :
        market_loans.fixed.num_active_loans + Len(matched_loans) <= MaxLoans =>
            \A stale_link \in LoanLinks(expand_market_loans(market_loans,
                                                            Len(matched_loans)),
                                        matched_loans) :
                LET r == add_new_loans(market_loans, matched_loans, stale_link)
                IN  /\ r.err = ""
                    /\ r.ml.fixed.num_active_loans
                          = market_loans.fixed.num_active_loans + Len(matched_loans)

(***************************************************************************)
(* The remainder a place_order leaves resting.                             *)
(***************************************************************************)
\* C35: a successful place_order trades at most num_base_atoms; the order it
\* leaves resting stands for num_base_atoms less the atoms traded, carries
\* the chosen pair's sequence number after its increment and the taker's
\* rate, side and seat, is linked into the taker's side of the chosen pair
\* and, unless it is global, is paid for by a debit of its collateral shares
\* on the taker's seat (seen where the call neither fills nor evicts).
RemainderRests ==
    [][PlaceOrderStep =>
          LET args == last'.args
              order_index == last'.order_index
              order == dynamic'[order_index]
              before == dynamic[args.trader_index]
              after == dynamic'[args.trader_index]
          IN  /\ last'.base_atoms_traded <= args.num_base_atoms
              /\ order_index # NIL =>
                    /\ get_num_base_atoms(order, BaseBank(args.use_a_tree))
                          = args.num_base_atoms - last'.base_atoms_traded
                    /\ order.sequence_number
                          = order_sequence_number_of(fixed, args.use_a_tree) + 1
                    /\ order.sequence_number = last'.order_sequence_number
                    /\ order.rate_bps = args.rate_bps
                    /\ order.is_bid = args.is_bid
                    /\ order.trader_index = args.trader_index
                    /\ Contains(trees'[TreeName(args.use_a_tree, args.is_bid)],
                                order_index)
                    /\ ~Contains(trees[TreeName(args.use_a_tree, args.is_bid)],
                                 order_index)
                    /\ ~is_global(order) /\ last'.fills = <<>> /\ last'.evicted = 0 =>
                          \E is_base_a \in BOOLEAN :
                              /\ withdrawable(after, is_base_a)
                                    = withdrawable(before, is_base_a)
                                        - order.collateral_shares
                              /\ withdrawable(after, ~is_base_a)
                                    = withdrawable(before, ~is_base_a)]_vars

(***************************************************************************)
(* Cancel with and without a hint.                                         *)
(***************************************************************************)
\* C36: for every trader, sequence number and pair, a CancelOrder with an
\* order-index hint that passes the hint checks ends as the CancelOrder
\* without a hint does: the same error or, on success, the same market and
\* the same loan ledger; a hint at an order of the other pair does not
\* succeed where the cancel without a hint finds no such order in the pair.
HintedCancelAsUnhinted ==
    links_intact =>
        \A trader \in Traders, order_sequence_number \in SequenceNumbers,
           order_index_hint \in CancelHints \ {NIL}, use_a_tree \in Pairs :
            LET trader_index == get_trader_index(dynamic, trees, trader)
                hinted == process_cancel_order_core(
                              fixed, dynamic, trees, global, market_loans,
                              trader_index, order_sequence_number, order_index_hint,
                              use_a_tree, now_slot)
                unhinted == process_cancel_order_core(
                                fixed, dynamic, trees, global, market_loans,
                                trader_index, order_sequence_number, NIL,
                                use_a_tree, now_slot)
            IN  check_cancel_hint(dynamic, trader_index, order_sequence_number,
                                  order_index_hint)
                => /\ hinted.err = unhinted.err
                   /\ hinted.err = "" =>
                         /\ hinted.intact = unhinted.intact
                         /\ hinted.fixed = unhinted.fixed
                         /\ hinted.dynamic = unhinted.dynamic
                         /\ hinted.trees = unhinted.trees
                         /\ hinted.global = unhinted.global
                         /\ hinted.market_loans = unhinted.market_loans

(***************************************************************************)
(* The flags of the orders of a tree.                                      *)
(***************************************************************************)
\* C37: every order linked into a bookside tree carries the side of that
\* tree in is_bid and the pair of that tree in is_a_tree: no ask is linked
\* into a bids tree or into a tree of the other pair.
OrdersCarryTheirTree ==
    \A use_a_tree \in BOOLEAN, is_bid \in BOOLEAN : \A i \in BlockIndexes :
        Contains(trees[TreeName(use_a_tree, is_bid)], i) =>
            /\ dynamic[i].payload_type = RestingOrder
            /\ dynamic[i].is_bid = is_bid
            /\ dynamic[i].is_a_tree = use_a_tree

(***************************************************************************)
(* The sign of a resting order's shares.                                   *)
(***************************************************************************)
\* C38: the collateral shares and the liability shares of a resting bid are
\* never negative, when it rests and after each partial fill of it.
SharesNeverNegative ==
    last.op \in {"rest_bid", "reduce_bid"} =>
        /\ last.order.collateral_shares >= 0
        /\ last.order.liability_shares >= 0

(***************************************************************************)
(* A free block for the next order.                                        *)
(***************************************************************************)
\* C39: after create_market and after every instruction the market's free
\* list is not empty and its head is an empty block that no tree links, so
\* the block a place_order takes for the order it rests or reposts is never
\* NIL.
FreeBlockAvailable ==
    /\ has_free_block(fixed)
    /\ fixed.free_list_head_index \in BlockIndexes
    /\ fixed.free_list_head_index < fixed.num_bytes_allocated
    /\ dynamic[fixed.free_list_head_index].payload_type = Empty
    /\ fixed.free_list_head_index \notin occupied_slots(trees)
    /\ get_free_address_on_market_fixed(fixed, dynamic).free_address # NIL

\* A place_order has rested an order in the last free block, and the
\* instruction has grown the market by the block that is now the only free
\* one.
LastFreeBlockTaken ==
    /\ last.op = "place_order"
    /\ last.order_index # NIL
    /\ fixed.free_list_head_index = fixed.num_bytes_allocated - MARKET_BLOCK_SIZE
    /\ dynamic[fixed.free_list_head_index].next_index = NIL
    /\ last.order_index < fixed.free_list_head_index

(***************************************************************************)
(* The taker's sequence number in the fill logs.                           *)
(***************************************************************************)
\* C40: every FillLog of a place_order carries as taker_sequence_number the
\* order sequence number the call returns for the taker's order, a number
\* above that of every order placed on the pair before.
FillsCarryTakerSequenceNumber ==
    [][PlaceOrderStep =>
          \A k \in 1..Len(last'.fills) :
              /\ last'.fills[k].taker_sequence_number = last'.order_sequence_number
              /\ last'.fills[k].taker_sequence_number
                    > order_sequence_number_of(fixed, last'.args.use_a_tree)]_vars

====
